---- MODULE Spec2Model ----
(***************************************************************************)
(* A model of jotai-state-tree's node engine: StateTreeNode (tree.ts),     *)
(* the snapshot and patch protocol, the identifier registry, the model,    *)
(* array and map instance wrappers that drive it, the four reference       *)
(* types, the undo manager and the time-travel manager.                    *)
(*                                                                         *)
(* Plain JavaScript values are tagged records (Undef, Prim, Arr, Obj).     *)
(* Strings that are paths are sequences of tokens: the token "/" is the    *)
(* separator character and every other token is an unbroken run of         *)
(* characters.  Every operation of the program is an operator from a       *)
(* world (the record of all program state) to a world; a thrown exception  *)
(* sets the world's err field and skips the rest of the operation, and     *)
(* what the operation had written before it threw stays written.           *)
(*                                                                         *)
(* The trees are made from two model types, Store and Item, that declare   *)
(* no snapshot processors, no volatile state and no lifecycle hooks.       *)
(* Left out: the environment, garbage collection (a WeakRef always         *)
(* dereferences to its node), the node registry of live-node statistics    *)
(* and the lifecycle listeners.  Values are compared by content; of the    *)
(* sharing of one array or object between the value atom and a patch, the  *)
(* model keeps what applyPatch shows: the old value handed to the          *)
(* listeners is the array or object applyPatch has just written in place.  *)
(***************************************************************************)

EXTENDS Integers, Sequences, FiniteSets, TLC

VARIABLES
    nodes,      \* node id -> StateTreeNode fields
    nextId,     \* nodeIdCounter
    registry,   \* identifierRegistry: <<typeName, identifier>> -> node id
    arrays,     \* array node id -> contents of its MSTArray instance
    maps,       \* map node id -> entries of its MSTMap instance
    log,        \* listener invocations of the last operation, in order
    recorder,   \* the object returned by recordPatches(root)
    um,         \* the UndoManager attached to the root
    tt,         \* the TimeTravelManager attached to the root
    refs,       \* the values the reference types' create() returned, in order
    got,        \* the node the last access through a reference reached
    act,        \* currentAction, actionListeners, actionRecorders and their calls
    models,        \* modelRegistry, pendingResolutions and the promises handed out
    clock,      \* Date.now()
    err,        \* the error the last operation threw ("" for none)
    last,       \* the last operation and what it observed before it ran
    mark,       \* snapshots and counts remembered across operations
    steps       \* number of operations still allowed

vars == <<nodes, nextId, registry, arrays, maps, log, recorder, um, tt, refs,
          got, act, models, clock, err, last, mark, steps>>

----------------------------------------------------------------------------
(* Bounds of the model *)

MaxNodes == 20
\* operations in a run of the lifecycle, patch and undo specifications
MaxSteps == 3
MaxMutations == 2
MaxUndoSteps == 4
\* times the grouping window elapses in a run
MaxTicks == 1

NoNode == 0
NodeIds == 1..MaxNodes

----------------------------------------------------------------------------
(* JavaScript values *)

Undef == [t |-> "undef", c |-> <<>>, s |-> ""]
Prim(s) == [t |-> "prim", c |-> <<>>, s |-> s]
Arr(seq) == [t |-> "arr", c |-> seq, s |-> ""]
Obj(f) == [t |-> "obj", c |-> f, s |-> ""]

IsArr(v) == v.t = "arr"
IsObj(v) == v.t = "obj"
\* typeof v === "object" && v !== null
IsObjectLike(v) == v.t \in {"arr", "obj"}

\* String(index) for the indices the model uses, and parseInt(key, 10)
IndexKeys == <<"0", "1", "2", "3", "4", "5">>
IndexKey(i) == IndexKeys[i + 1]
IsIndexKey(k) == \E i \in 1..Len(IndexKeys) : IndexKeys[i] = k
\* parseInt yields NaN for a key that is no number; splice reads NaN as 0
ParseIntOrZero(k) ==
    IF IsIndexKey(k) THEN (CHOOSE i \in 1..Len(IndexKeys) : IndexKeys[i] = k) - 1 ELSE 0

\* key in value, for an object or an array
HasKey(v, k) ==
    IF IsObj(v) THEN k \in DOMAIN v.c
    ELSE IsArr(v) /\ IsIndexKey(k) /\ ParseIntOrZero(k) < Len(v.c)

\* value[key], for an object or an array
GetProp(v, k) ==
    IF ~HasKey(v, k) THEN Undef
    ELSE IF IsObj(v) THEN v.c[k] ELSE v.c[ParseIntOrZero(k) + 1]

\* obj[key] = value on a plain object
ObjSet(v, k, x) == Obj([q \in (DOMAIN v.c) \cup {k} |-> IF q = k THEN x ELSE v.c[q]])

\* delete obj[key]
ObjDelete(v, k) == Obj([q \in (DOMAIN v.c) \ {k} |-> v.c[q]])

\* value[key] = x, in place, on an object or an array: an index past the end
\* lengthens the array (the elements skipped read as undefined), and a key
\* that is no index leaves the elements of an array as they are
SetProp(v, k, x) ==
    IF IsObj(v) THEN ObjSet(v, k, x)
    ELSE IF IsArr(v) /\ IsIndexKey(k)
    THEN Arr([i \in 1..(IF ParseIntOrZero(k) < Len(v.c) THEN Len(v.c)
                                                        ELSE ParseIntOrZero(k) + 1) |->
                 IF i = ParseIntOrZero(k) + 1 THEN x
                 ELSE IF i <= Len(v.c) THEN v.c[i]
                 ELSE Undef])
    ELSE v

\* Array.prototype.splice(index, deleteCount, ...items) on a sequence
Min(a, b) == IF a < b THEN a ELSE b
Splice(seq, index, deleteCount, items) ==
    LET i == Min(index, Len(seq))
        d == Min(deleteCount, Len(seq) - i)
    IN SubSeq(seq, 1, i) \o items \o SubSeq(seq, i + d + 1, Len(seq))

Reverse(seq) == [i \in 1..Len(seq) |-> seq[Len(seq) + 1 - i]]

----------------------------------------------------------------------------
(* Paths: template strings and String.prototype.split *)

\* the characters of a child key, as tokens
KeyChars(k) ==
    IF k = "a/b" THEN <<"a", "/", "b">>
    ELSE IF k = "a~b" THEN <<"a", "~", "b">>
    ELSE <<k>>

\* `${path}/${key}`
JoinPath(path, k) == path \o <<"/">> \o KeyChars(k)

RECURSIVE SplitRec(_, _, _)
SplitRec(rest, cur, acc) ==
    IF rest = <<>> THEN Append(acc, cur)
    ELSE IF Head(rest) = "/" THEN SplitRec(Tail(rest), <<>>, Append(acc, cur))
    ELSE SplitRec(Tail(rest), Append(cur, Head(rest)), acc)

\* a run of tokens between two separators, as one string
SegmentKey(seg) ==
    IF Len(seg) = 1 THEN seg[1]
    ELSE IF seg = KeyChars("a/b") THEN "a/b"
    ELSE IF seg = KeyChars("a~b") THEN "a~b"
    ELSE "?"

\* path.split("/").filter(Boolean)
PathParts(path) ==
    LET segs == SplitRec(path, <<>>, <<>>)
        keep == SelectSeq(segs, LAMBDA s : s # <<>>)
    IN [i \in 1..Len(keep) |-> SegmentKey(keep[i])]

RECURSIVE ReplaceAll(_, _, _)
\* string.replace(/pattern/g, replacement) on the characters of a string
ReplaceAll(chars, pattern, replacement) ==
    IF Len(chars) < Len(pattern) THEN chars
    ELSE IF SubSeq(chars, 1, Len(pattern)) = pattern
    THEN replacement \o ReplaceAll(SubSeq(chars, Len(pattern) + 1, Len(chars)),
                                   pattern, replacement)
    ELSE <<Head(chars)>> \o ReplaceAll(Tail(chars), pattern, replacement)

\* unescapeJsonPath
UnescapeJsonPath(chars) ==
    ReplaceAll(ReplaceAll(chars, <<"~", "1">>, <<"/">>), <<"~", "0">>, <<"~">>)

\* splitJsonPath: path.split("/").filter(Boolean).map(unescapeJsonPath)
SplitJsonPath(path) ==
    LET segs == SplitRec(path, <<>>, <<>>)
        keep == SelectSeq(segs, LAMBDA s : s # <<>>)
    IN [i \in 1..Len(keep) |-> SegmentKey(UnescapeJsonPath(keep[i]))]

----------------------------------------------------------------------------
(* StateTreeNode: fields and the child Map *)

\* the fields of a node id that no constructor has produced yet
NoNodeRec ==
    [kind |-> "none", tname |-> "", parent |-> NoNode, path |-> <<>>,
     alive |-> FALSE, children |-> <<>>, value |-> Undef,
     hasId |-> FALSE, idType |-> "", idValue |-> "",
     plis |-> <<>>, slis |-> <<>>]

Allocated(ns, n) == n \in NodeIds /\ ns[n].kind # "none"

\* Map.prototype.get on node.children (NoNode for undefined)
GetChild(nd, k) ==
    IF \E i \in 1..Len(nd.children) : nd.children[i].key = k
    THEN nd.children[CHOOSE i \in 1..Len(nd.children) : nd.children[i].key = k].node
    ELSE NoNode

ChildKeys(nd) == {nd.children[i].key : i \in 1..Len(nd.children)}
ChildNodes(nd) == {nd.children[i].node : i \in 1..Len(nd.children)}

\* Map.prototype.set keeps the position of a key that is already present
MapSet(entries, k, n) ==
    IF \E i \in 1..Len(entries) : entries[i].key = k
    THEN [i \in 1..Len(entries) |->
            IF entries[i].key = k THEN [key |-> k, node |-> n] ELSE entries[i]]
    ELSE Append(entries, [key |-> k, node |-> n])

\* Map.prototype.delete
MapDelete(entries, k) == SelectSeq(entries, LAMBDA e : e.key # k)

Throw(w, e) == [w EXCEPT !.err = e]

\* new StateTreeNode(type, initialValue, env, parent, pathSegment); the new
\* node's id is the nextId of the resulting world
NewNode(w, kind, tname, value, parent, key) ==
    IF w.err # "" THEN w
    ELSE IF w.nextId >= MaxNodes THEN Throw(w, "OutOfNodes")
    ELSE LET id == w.nextId + 1 IN
         [w EXCEPT !.nextId = id,
                   !.nodes[id] =
                       [NoNodeRec EXCEPT
                           !.kind = kind, !.tname = tname, !.value = value,
                           !.alive = TRUE, !.parent = parent,
                           !.path = IF parent # NoNode
                                    THEN JoinPath(w.nodes[parent].path, key)
                                    ELSE <<>>]]

RECURSIVE GetRootFrom(_, _, _)
GetRootFrom(ns, n, fuel) ==
    IF ns[n].parent = NoNode \/ fuel = 0 THEN n
    ELSE GetRootFrom(ns, ns[n].parent, fuel - 1)

\* StateTreeNode.getRoot
GetRoot(ns, n) == GetRootFrom(ns, n, MaxNodes)

RECURSIVE GetSnapshotFromNode(_, _)
GetSnapshotFromNode(ns, n) ==
    LET nd == ns[n] IN
    IF nd.kind \in {"model", "map"}
    THEN Obj([k \in ChildKeys(nd) |-> GetSnapshotFromNode(ns, GetChild(nd, k))])
    ELSE IF nd.kind = "array"
    THEN Arr([i \in 1..Len(nd.value.c) |->
                IF GetChild(nd, IndexKey(i - 1)) # NoNode
                THEN GetSnapshotFromNode(ns, GetChild(nd, IndexKey(i - 1)))
                ELSE nd.value.c[i]])
    ELSE nd.value

----------------------------------------------------------------------------
(* Listeners: observers, recordPatches and the undo manager *)

\* a recordPatch that trims the history at the cap and leaves the index
\* where it was before the trim
RecordPatchUnshifted(w, patch, reversePatch) ==
    LET u == w.um
        kept == SubSeq(u.historyEntries, 1, u.currentIndex + 1)
        pushed == Append(kept, [patches |-> <<reversePatch>>,
                                inversePatches |-> <<patch>>,
                                timestamp |-> w.clock])
        excess == IF Len(pushed) > u.maxHistoryLength
                  THEN Len(pushed) - u.maxHistoryLength ELSE 0
    IN
    IF u.isUndoing \/ u.isRedoing \/ u.skipRecording THEN w
    ELSE IF u.grouping
    THEN [w EXCEPT !.um.currentGroup = Append(u.currentGroup, reversePatch),
                   !.um.currentGroupInverse = <<patch>> \o u.currentGroupInverse]
    ELSE [w EXCEPT !.um.historyEntries = SubSeq(pushed, excess + 1, Len(pushed)),
                   !.um.currentIndex = u.currentIndex + 1,
                   !.um.lastChangeTime = w.clock]

\* UndoManager.recordPatch
RecordPatch(w, patch, reversePatch) ==
    LET u == w.um
        now == w.clock
    IN
    IF u.isUndoing \/ u.isRedoing \/ u.skipRecording THEN w
    ELSE IF u.grouping
    THEN [w EXCEPT !.um.currentGroup = Append(u.currentGroup, reversePatch),
                   !.um.currentGroupInverse = <<patch>> \o u.currentGroupInverse]
    ELSE IF /\ u.groupByTime
            /\ Len(u.historyEntries) > 0
            /\ now - u.lastChangeTime < u.groupingWindow
            /\ u.currentIndex = Len(u.historyEntries) - 1
    THEN LET lastEntry == u.historyEntries[u.currentIndex + 1] IN
         [w EXCEPT !.um.historyEntries[u.currentIndex + 1] =
                        [patches |-> Append(lastEntry.patches, reversePatch),
                         inversePatches |-> <<patch>> \o lastEntry.inversePatches,
                         timestamp |-> now],
                   !.um.lastChangeTime = now]
    ELSE LET kept == SubSeq(u.historyEntries, 1, u.currentIndex + 1)
             pushed == Append(kept, [patches |-> <<reversePatch>>,
                                     inversePatches |-> <<patch>>,
                                     timestamp |-> now])
             index == u.currentIndex + 1
             excess == IF Len(pushed) > u.maxHistoryLength
                       THEN Len(pushed) - u.maxHistoryLength ELSE 0
         IN [w EXCEPT !.um.historyEntries = SubSeq(pushed, excess + 1, Len(pushed)),
                      !.um.currentIndex = index - excess,
                      !.um.lastChangeTime = now]

\* the listener recordPatches registers
RecorderListener(w, patch, reversePatch) ==
    IF w.recorder.recording
    THEN [w EXCEPT !.recorder.patches = Append(@, patch),
                   !.recorder.inversePatches = Append(@, reversePatch)]
    ELSE w

\* a record that appends without dropping the snapshots ahead of the cursor
TimeTravelRecordAppending(w) ==
    LET t == w.tt
        pushed == Append(t.snapshots, GetSnapshotFromNode(w.nodes, t.target))
        excess == IF Len(pushed) > t.maxSnapshots
                  THEN Len(pushed) - t.maxSnapshots ELSE 0
    IN [w EXCEPT !.tt.snapshots = SubSeq(pushed, excess + 1, Len(pushed)),
                 !.tt.index = t.index + 1 - excess]

\* TimeTravelManager.record
TimeTravelRecord(w) ==
    LET t == w.tt
        kept == IF t.index < Len(t.snapshots) - 1
                THEN SubSeq(t.snapshots, 1, t.index + 1) ELSE t.snapshots
        pushed == Append(kept, GetSnapshotFromNode(w.nodes, t.target))
        excess == IF Len(pushed) > t.maxSnapshots
                  THEN Len(pushed) - t.maxSnapshots ELSE 0
    IN [w EXCEPT !.tt.snapshots = SubSeq(pushed, excess + 1, Len(pushed)),
                 !.tt.index = t.index + 1 - excess]

\* a listener that records whether or not a snapshot is being applied
TimeTravelListenerUnguarded(w) == TimeTravelRecord(w)

\* the patch listener a TimeTravelManager with autoRecord registers
TimeTravelListener(w) == IF ~w.tt.isApplying THEN TimeTravelRecord(w) ELSE w

\* the place of a deleted entry of a Set until no forEach runs over it: the
\* entries keep their positions while a dispatch is in progress
Deleted == ""

\* StateTreeNode.onPatch: patchListeners.add(listener)
OnPatch(w, n, lid) ==
    IF \E i \in 1..Len(w.nodes[n].plis) : w.nodes[n].plis[i] = lid THEN w
    ELSE [w EXCEPT !.nodes[n].plis = Append(@, lid)]

\* the disposer onPatch returned: patchListeners.delete(listener)
DisposeOnPatch(w, n, lid) ==
    [w EXCEPT !.nodes[n].plis =
        [i \in 1..Len(@) |-> IF @[i] = lid THEN Deleted ELSE @[i]]]

\* the Set once the forEach over it has ended
Compacted(w, n) ==
    [w EXCEPT !.nodes[n].plis = SelectSeq(@, LAMBDA l : l # Deleted)]

\* one listener of node `at` is called with (patch, reversePatch).  "ADD"
\* subscribes the listener "NEW" to the node, "DEL" disposes the node's
\* observer, "RE" disposes itself and subscribes itself again
Deliver(w, at, lid, patch, reversePatch) ==
    LET w1 == [w EXCEPT !.log = Append(@, [k |-> "patch", at |-> at, l |-> lid,
                                            patch |-> patch, snap |-> Undef])]
    IN IF lid = "UM" THEN RecordPatch(w1, patch, reversePatch)
       ELSE IF lid = "REC" THEN RecorderListener(w1, patch, reversePatch)
       ELSE IF lid = "TT" THEN TimeTravelListener(w1)
       ELSE IF lid = "ADD" THEN OnPatch(w1, at, "NEW")
       ELSE IF lid = "DEL" THEN DisposeOnPatch(w1, at, "OBS")
       ELSE IF lid = "RE" THEN OnPatch(DisposeOnPatch(w1, at, "RE"), at, "RE")
       ELSE w1

\* calls of listeners after which a forEach is taken not to end
MaxDispatch == 8

RECURSIVE DeliverAll(_, _, _, _, _, _)
\* patchListeners.forEach(listener => listener(patch, reversePatch)) from
\* entry i on: the entries are read as the walk reaches them, so an entry
\* deleted ahead of the walk is skipped and an entry added is visited
DeliverAll(w, at, i, patch, reversePatch, fuel) ==
    IF i > Len(w.nodes[at].plis) THEN w
    ELSE IF fuel = 0 THEN Throw(w, "Diverges")
    ELSE IF w.nodes[at].plis[i] = Deleted
    THEN DeliverAll(w, at, i + 1, patch, reversePatch, fuel)
    ELSE DeliverAll(Deliver(w, at, w.nodes[at].plis[i], patch, reversePatch),
                    at, i + 1, patch, reversePatch, fuel - 1)

RECURSIVE NotifyPatch(_, _, _, _, _)
NotifyPatch(w, n, patch, reversePatch, fuel) ==
    LET w1 == Compacted(DeliverAll(w, n, 1, patch, reversePatch, MaxDispatch), n) IN
    IF w.nodes[n].parent # NoNode /\ fuel > 0
    THEN NotifyPatch(w1, w.nodes[n].parent, patch, reversePatch, fuel - 1)
    ELSE w1

\* a notifySnapshotChange that calls the snapshot listeners of the node itself
NotifySnapshotChangeLocal(w, n) ==
    LET snapshot == GetSnapshotFromNode(w.nodes, n)
        lids == w.nodes[n].slis
    IN [w EXCEPT !.log = @ \o [i \in 1..Len(lids) |->
                                 [k |-> "snap", at |-> n, l |-> lids[i],
                                  patch |-> [op |-> "", path |-> <<>>, value |-> Undef],
                                  snap |-> snapshot]]]

\* StateTreeNode.notifySnapshotChange
NotifySnapshotChange(w, n) ==
    LET root == GetRoot(w.nodes, n)
        snapshot == GetSnapshotFromNode(w.nodes, root)
        lids == w.nodes[root].slis
    IN [w EXCEPT !.log = @ \o [i \in 1..Len(lids) |->
                                 [k |-> "snap", at |-> root, l |-> lids[i],
                                  patch |-> [op |-> "", path |-> <<>>, value |-> Undef],
                                  snap |-> snapshot]]]

ReplacePatch(path, v) == [op |-> "replace", path |-> path, value |-> v]
ReversePatch(path, old) ==
    [op |-> "replace", path |-> path, value |-> old, oldValue |-> old]

\* a setValue that stores nothing
SetValueDropped(w, n, v) ==
    IF w.err # "" THEN w
    ELSE IF ~w.nodes[n].alive THEN Throw(w, "DeadNode")
    ELSE LET oldValue == w.nodes[n].value
             path == w.nodes[n].path
             w1 == [w EXCEPT !.nodes[n].value = Undef]
             w2 == NotifyPatch(w1, n, ReplacePatch(path, v),
                               ReversePatch(path, oldValue), MaxNodes)
         IN NotifySnapshotChange(w2, n)

\* StateTreeNode.setValue
SetValue(w, n, v) ==
    IF w.err # "" THEN w
    ELSE IF ~w.nodes[n].alive THEN Throw(w, "DeadNode")
    ELSE LET oldValue == w.nodes[n].value
             path == w.nodes[n].path
             w1 == [w EXCEPT !.nodes[n].value = v]
             w2 == NotifyPatch(w1, n, ReplacePatch(path, v),
                               ReversePatch(path, oldValue), MaxNodes)
         IN NotifySnapshotChange(w2, n)

\* StateTreeNode.notifyPropertyChange
NotifyPropertyChange(w, n, propName, newValue, oldValue) ==
    LET path == JoinPath(w.nodes[n].path, propName)
        w1 == NotifyPatch(w, n, ReplacePatch(path, newValue),
                          ReversePatch(path, oldValue), MaxNodes)
    IN NotifySnapshotChange(w1, n)

----------------------------------------------------------------------------
(* StateTreeNode: structure, identifiers, destroy and detach *)

RECURSIVE UpdatePathRecursively(_, _, _, _)
\* StateTreeNode.updatePathRecursively, on the node table
UpdatePathRecursively(ns, n, newPath, fuel) ==
    LET ns1 == [ns EXCEPT ![n].path = newPath]
        kids == ns[n].children
        Step[i \in 0..Len(kids)] ==
            IF i = 0 THEN ns1
            ELSE IF fuel = 0 THEN Step[i - 1]
            ELSE UpdatePathRecursively(Step[i - 1], kids[i].node,
                                       JoinPath(newPath, kids[i].key), fuel - 1)
    IN Step[Len(kids)]

\* StateTreeNode.addChild
AddChild(w, p, key, child) ==
    IF w.err # "" THEN w
    ELSE LET ns1 == [w.nodes EXCEPT ![child].parent = p]
             ns2 == UpdatePathRecursively(ns1, child, JoinPath(ns1[p].path, key), MaxNodes)
         IN [w EXCEPT !.nodes = [ns2 EXCEPT ![p].children = MapSet(@, key, child)]]

\* StateTreeNode.registerIdentifier
RegisterIdentifier(w, n, typeName, identifier) ==
    IF w.err # "" THEN w
    ELSE [w EXCEPT !.nodes[n].hasId = TRUE,
                   !.nodes[n].idType = typeName,
                   !.nodes[n].idValue = identifier,
                   !.registry = [q \in (DOMAIN w.registry) \cup {<<typeName, identifier>>} |->
                                    IF q = <<typeName, identifier>> THEN n ELSE w.registry[q]]]

\* StateTreeNode.unregisterIdentifier
UnregisterIdentifier(w, n) ==
    IF w.nodes[n].hasId
    THEN LET key == <<w.nodes[n].idType, w.nodes[n].idValue>> IN
         [w EXCEPT !.registry = [q \in (DOMAIN w.registry) \ {key} |-> w.registry[q]]]
    ELSE w

\* resolveIdentifier (NoNode for undefined)
ResolveIdentifier(reg, typeName, identifier) ==
    IF <<typeName, identifier>> \in DOMAIN reg THEN reg[<<typeName, identifier>>] ELSE NoNode

RECURSIVE DestroyNode(_, _, _)
\* StateTreeNode.destroy
DestroyNode(w, n, fuel) ==
    IF w.err # "" \/ ~w.nodes[n].alive THEN w
    ELSE LET kids == w.nodes[n].children
             Step[i \in 0..Len(kids)] ==
                 IF i = 0 THEN w
                 ELSE IF fuel = 0 THEN Throw(Step[i - 1], "StackOverflow")
                 ELSE DestroyNode(Step[i - 1], kids[i].node, fuel - 1)
             w1 == Step[Len(kids)]
         IN IF w1.err # "" THEN w1
            ELSE LET w2 == UnregisterIdentifier([w1 EXCEPT !.nodes[n].children = <<>>], n)
                 IN [w2 EXCEPT !.nodes[n].alive = FALSE,
                               !.nodes[n].slis = <<>>,
                               !.nodes[n].plis = <<>>]

Destroy(w, n) == DestroyNode(w, n, MaxNodes)

\* StateTreeNode.removeChild
RemoveChild(w, p, key) ==
    LET child == GetChild(w.nodes[p], key) IN
    IF child = NoNode THEN w
    ELSE LET w1 == Destroy(w, child) IN
         IF w1.err # "" THEN w1
         ELSE [w1 EXCEPT !.nodes[p].children = MapDelete(@, key)]

\* a detach that resets the parent link and the path and leaves the parent's
\* child map alone
DetachLinkOnly(w, n) ==
    IF w.nodes[n].parent = NoNode THEN w
    ELSE [w EXCEPT !.nodes[n].parent = NoNode, !.nodes[n].path = <<>>]

\* StateTreeNode.detach: the first entry of the parent's child map that holds
\* this node is deleted
Detach(w, n) ==
    LET p == w.nodes[n].parent IN
    IF p = NoNode THEN w
    ELSE LET kids == w.nodes[p].children
             hits == {i \in 1..Len(kids) : kids[i].node = n}
             first == IF hits = {} THEN 0
                      ELSE CHOOSE i \in hits : \A j \in hits : i <= j
             kept == [i \in 1..(Len(kids) - (IF first = 0 THEN 0 ELSE 1)) |->
                         IF first = 0 \/ i < first THEN kids[i] ELSE kids[i + 1]]
         IN [w EXCEPT !.nodes[p].children = kept,
                      !.nodes[n].parent = NoNode,
                      !.nodes[n].path = <<>>]

----------------------------------------------------------------------------
(* Snapshot and patch protocol *)

RECURSIVE ApplySnapshotToNode(_, _, _)
\* applySnapshotToNode (the fixture's types declare no snapshot processors)
ApplySnapshotToNode(w, n, snapshot) ==
    IF w.err # "" THEN w
    ELSE IF ~w.nodes[n].alive THEN Throw(w, "DeadNode")
    ELSE IF w.nodes[n].kind = "model" /\ IsObjectLike(snapshot)
    THEN LET kids == w.nodes[n].children
             Step[i \in 0..Len(kids)] ==
                 IF i = 0 THEN w
                 ELSE IF HasKey(snapshot, kids[i].key)
                 THEN ApplySnapshotToNode(Step[i - 1], kids[i].node,
                                          GetProp(snapshot, kids[i].key))
                 ELSE Step[i - 1]
         IN Step[Len(kids)]
    ELSE SetValue(w, n, snapshot)

RECURSIVE Navigate(_, _, _, _)
\* the walk of applyPatchToNode over pathParts[0 .. length - 2]
\* (NoNode when a segment has no child)
Navigate(ns, n, parts, i) ==
    IF i >= Len(parts) THEN n
    ELSE IF GetChild(ns[n], parts[i]) = NoNode THEN NoNode
    ELSE Navigate(ns, GetChild(ns[n], parts[i]), parts, i + 1)

\* the body of applyPatchToNode once the walk has reached `node`.  The
\* current value is written in place before setValue reads the old value.
PatchAt(w, node, hasKey, key, patch) ==
    LET currentValue == w.nodes[node].value
        childNode == IF hasKey THEN GetChild(w.nodes[node], key) ELSE NoNode
    IN
    IF patch.op = "replace"
    THEN IF childNode # NoNode
         THEN ApplySnapshotToNode(w, childNode, patch.value)
         ELSE IF ~IsObjectLike(currentValue) THEN Throw(w, "TypeError")
         ELSE LET written == SetProp(currentValue, key, patch.value) IN
              SetValue([w EXCEPT !.nodes[node].value = written], node, written)
    ELSE IF patch.op = "add"
    THEN IF IsArr(currentValue)
         THEN LET index == IF key = "-" THEN Len(currentValue.c) ELSE ParseIntOrZero(key)
                  written == Arr(Splice(currentValue.c, index, 0, <<patch.value>>))
              IN SetValue([w EXCEPT !.nodes[node].value = written], node, written)
         ELSE IF IsObj(currentValue)
         THEN LET written == ObjSet(currentValue, key, patch.value) IN
              SetValue([w EXCEPT !.nodes[node].value = written], node, written)
         ELSE w
    ELSE IF patch.op = "remove"
    THEN IF IsArr(currentValue)
         THEN LET written == Arr(Splice(currentValue.c, ParseIntOrZero(key), 1, <<>>)) IN
              SetValue([w EXCEPT !.nodes[node].value = written], node, written)
         ELSE IF IsObj(currentValue)
         THEN LET written == ObjDelete(currentValue, key) IN
              SetValue([w EXCEPT !.nodes[node].value = written], node, written)
         ELSE w
    ELSE w

\* applyPatchToNode
ApplyPatchToNode(w, rootNode, patch) ==
    IF w.err # "" THEN w
    ELSE LET parts == PathParts(patch.path)
             node == Navigate(w.nodes, rootNode, parts, 1)
         IN IF node = NoNode THEN Throw(w, "InvalidPath")
            ELSE PatchAt(w, node, parts # <<>>,
                         IF parts # <<>> THEN parts[Len(parts)] ELSE "undefined",
                         patch)

RECURSIVE ResolveParts(_, _, _, _)
\* the walk of resolvePath over the parts (NoNode when a part has no child)
ResolveParts(ns, n, parts, i) ==
    IF i > Len(parts) THEN n
    ELSE IF GetChild(ns[n], parts[i]) = NoNode THEN NoNode
    ELSE ResolveParts(ns, GetChild(ns[n], parts[i]), parts, i + 1)

\* resolvePath(target, path): the node whose instance is returned
ResolvePath(w, target, path) ==
    LET node == ResolveParts(w.nodes, target, PathParts(path), 1)
    IN IF node = NoNode THEN Throw([w EXCEPT !.got = NoNode], "InvalidPath")
       ELSE [w EXCEPT !.got = node]

RECURSIVE ApplyPatchesContinuing(_, _, _)
\* a loop that goes on with the next patch after one has thrown
ApplyPatchesContinuing(w, rootNode, patches) ==
    IF patches = <<>> THEN w
    ELSE LET w1 == ApplyPatchToNode([w EXCEPT !.err = ""], rootNode, Head(patches))
             w2 == ApplyPatchesContinuing(w1, rootNode, Tail(patches))
         IN IF w1.err # "" THEN [w2 EXCEPT !.err = w1.err] ELSE w2

RECURSIVE ApplyPatches(_, _, _)
\* for (const p of patches) applyPatchToNode(rootNode, p)
ApplyPatches(w, rootNode, patches) ==
    IF patches = <<>> THEN w
    ELSE ApplyPatches(ApplyPatchToNode(w, rootNode, Head(patches)), rootNode, Tail(patches))

\* applyPatch(target, patch | patch[])
ApplyPatch(w, target, patches) == ApplyPatches(w, GetRoot(w.nodes, target), patches)

\* recordPatches(target).undo(t)
RecorderUndo(w, t) == ApplyPatch(w, t, Reverse(w.recorder.inversePatches))

\* recordPatches(target).replay(t)
RecorderReplay(w, t) == ApplyPatch(w, t, w.recorder.patches)

----------------------------------------------------------------------------
(* The modelling layer: the types of the fixture *)

\* const Item  = types.model("Item",  { id: types.identifier, x: types.number })
\* const Store = types.model("Store", { count: types.number,
\*                                      items: types.array(types.string),
\*                                      tags: types.map(types.string),
\*                                      sub: Item })
Properties(tname) ==
    IF tname = "Store"
    THEN << [key |-> "count", type |-> "number"],
            [key |-> "items", type |-> "array<string>"],
            [key |-> "tags", type |-> "map<string>"],
            [key |-> "sub", type |-> "Item"] >>
    ELSE IF tname = "Item"
    THEN << [key |-> "id", type |-> "identifier"],
            [key |-> "x", type |-> "number"] >>
    ELSE <<>>

\* type._kind
TypeKind(type) ==
    IF type \in {"Store", "Item"} THEN "model"
    ELSE IF type = "array<string>" THEN "array"
    ELSE IF type = "map<string>" THEN "map"
    ELSE IF type = "identifier" THEN "identifier"
    ELSE "simple"

HasProperty(tname, key) ==
    \E i \in 1..Len(Properties(tname)) : Properties(tname)[i].key = key
PropertyType(tname, key) ==
    Properties(tname)[CHOOSE i \in 1..Len(Properties(tname)) :
                          Properties(tname)[i].key = key].type

\* ModelType.identifierAttribute ("" for undefined)
IdentifierAttribute(tname) ==
    LET ps == Properties(tname)
        hits == {i \in 1..Len(ps) : TypeKind(ps[i].type) = "identifier"}
    IN IF hits = {} THEN "" ELSE ps[CHOOSE i \in hits : \A j \in hits : i <= j].key

\* the order in which Object.entries lists the keys the model uses
KeyOrder == <<"0", "1", "2", "3", "4", "5", "a", "b", "k", "m", "a/b", "a~b">>
KeyRank(k) == CHOOSE i \in 1..Len(KeyOrder) : KeyOrder[i] = k

RECURSIVE SortKeys(_)
SortKeys(S) ==
    IF S = {} THEN <<>>
    ELSE LET k == CHOOSE x \in S : \A y \in S : KeyRank(x) <= KeyRank(y)
         IN <<k>> \o SortKeys(S \ {k})

\* Object.entries(obj)
ObjectEntries(v) ==
    LET ks == SortKeys(DOMAIN v.c) IN
    [i \in 1..Len(ks) |-> [key |-> ks[i], val |-> v.c[ks[i]]]]

\* MSTMap.toJSON
MapToJSON(entries) ==
    Obj([k \in {entries[i].key : i \in 1..Len(entries)} |->
            entries[CHOOSE i \in 1..Len(entries) : entries[i].key = k].val])

\* createSimpleType(...).create, for a type with no default value
SimpleCreate(w, snapshot) ==
    IF w.err # "" THEN w
    ELSE IF snapshot = Undef THEN Throw(w, "ValueRequired")
    ELSE IF snapshot.t # "prim" THEN Throw(w, "InvalidValue")
    ELSE w

\* a syncToNode that never reuses a node and leaves the nodes that are no
\* longer elements alive
ArraySyncToNodeLeaking(w, a) ==
    IF w.err # "" THEN w
    ELSE
    LET items == w.arrays[a]
        Step[i \in 0..Len(items)] ==
            IF i = 0 THEN [w |-> w, newChildren |-> <<>>]
            ELSE LET acc == Step[i - 1]
                     w1 == NewNode(SimpleCreate(acc.w, items[i]), "simple", "string",
                                   items[i], NoNode, "")
                 IN [w |-> w1,
                     newChildren |-> Append(acc.newChildren,
                                            [key |-> IndexKey(i - 1), node |-> w1.nextId])]
        done == Step[Len(items)]
        w2 == [done.w EXCEPT !.nodes[a].children = <<>>]
        Add[i \in 0..Len(done.newChildren)] ==
            IF i = 0 THEN w2
            ELSE AddChild(Add[i - 1], a, done.newChildren[i].key, done.newChildren[i].node)
    IN SetValue(Add[Len(done.newChildren)], a, Arr(items))

\* MSTArray.syncToNode, for an array of strings
ArraySyncToNode(w, a) ==
    IF w.err # "" THEN w
    ELSE
    LET items == w.arrays[a]
        kids == w.nodes[a].children
        existing == [i \in 1..Len(kids) |-> kids[i].node]
        \* acc: the world, newChildren and keptNodes after the first i items
        Step[i \in 0..Len(items)] ==
            IF i = 0 THEN [w |-> w, newChildren |-> <<>>, kept |-> {}]
            ELSE LET acc == Step[i - 1]
                     w0 == SimpleCreate(acc.w, items[i])
                     free == {j \in 1..Len(existing) :
                                 /\ existing[j] \notin acc.kept
                                 /\ w0.nodes[existing[j]].value = items[i]}
                 IN IF free # {}
                    THEN LET reused == existing[CHOOSE j \in free : \A q \in free : j <= q] IN
                         [w |-> w0,
                          newChildren |-> Append(acc.newChildren,
                                                 [key |-> IndexKey(i - 1), node |-> reused]),
                          kept |-> acc.kept \cup {reused}]
                    ELSE LET w1 == NewNode(w0, "simple", "string", items[i], NoNode, "") IN
                         [w |-> w1,
                          newChildren |-> Append(acc.newChildren,
                                                 [key |-> IndexKey(i - 1), node |-> w1.nextId]),
                          kept |-> acc.kept \cup {w1.nextId}]
        done == Step[Len(items)]
        Kill[i \in 0..Len(existing)] ==
            IF i = 0 THEN done.w
            ELSE IF existing[i] \notin done.kept THEN Destroy(Kill[i - 1], existing[i])
            ELSE Kill[i - 1]
        w2 == [Kill[Len(existing)] EXCEPT !.nodes[a].children = <<>>]
        Add[i \in 0..Len(done.newChildren)] ==
            IF i = 0 THEN w2
            ELSE AddChild(Add[i - 1], a, done.newChildren[i].key, done.newChildren[i].node)
    IN SetValue(Add[Len(done.newChildren)], a, Arr(items))

\* MSTMap.syncToNode, for a map of strings
MapSyncToNode(w, m) ==
    IF w.err # "" THEN w
    ELSE
    LET entries == w.maps[m]
        existingChildren == w.nodes[m].children
        Step[i \in 0..Len(entries)] ==
            IF i = 0 THEN [w |-> w, newChildren |-> <<>>]
            ELSE LET acc == Step[i - 1]
                     existingChild == GetChild([children |-> existingChildren], entries[i].key)
                 IN IF existingChild # NoNode
                       /\ acc.w.nodes[existingChild].value = entries[i].val
                    THEN [w |-> acc.w,
                          newChildren |-> MapSet(acc.newChildren, entries[i].key, existingChild)]
                    ELSE LET w1 == NewNode(acc.w, "simple", "string", entries[i].val, NoNode, "") IN
                         [w |-> w1,
                          newChildren |-> MapSet(acc.newChildren, entries[i].key, w1.nextId)]
        done == Step[Len(entries)]
        newKeys == {done.newChildren[i].key : i \in 1..Len(done.newChildren)}
        Kill[i \in 0..Len(existingChildren)] ==
            IF i = 0 THEN done.w
            ELSE IF existingChildren[i].key \notin newKeys
            THEN Destroy(Kill[i - 1], existingChildren[i].node)
            ELSE Kill[i - 1]
        w2 == [Kill[Len(existingChildren)] EXCEPT !.nodes[m].children = <<>>]
        Add[i \in 0..Len(done.newChildren)] ==
            IF i = 0 THEN w2
            ELSE AddChild(Add[i - 1], m, done.newChildren[i].key, done.newChildren[i].node)
    IN SetValue(Add[Len(done.newChildren)], m, MapToJSON(entries))

----------------------------------------------------------------------------
(* The modelling layer: create, clone and the instance proxy *)

\* ArrayType.create, for an array of strings; the new array node's id is
\* w.nextId + 1
ArrayCreate(w, snapshot) ==
    IF w.err # "" THEN w
    ELSE
    LET items == IF snapshot = Undef THEN <<>> ELSE snapshot.c
        w0 == NewNode(w, "array", "array<string>", Arr(items), NoNode, "")
        node == w.nextId + 1
        Step[i \in 0..Len(items)] ==
            IF i = 0 THEN w0
            ELSE LET w1 == SimpleCreate(Step[i - 1], items[i])
                     w2 == NewNode(w1, "simple", "string", items[i], node, IndexKey(i - 1))
                 IN AddChild(w2, node, IndexKey(i - 1), w2.nextId)
        w3 == Step[Len(items)]
    IN IF w3.err # "" THEN w3
       ELSE SetValue([w3 EXCEPT !.arrays[node] = items], node, Arr(items))

\* MapType.create and the MSTMap constructor, for a map of strings
MapCreate(w, snapshot) ==
    IF w.err # "" THEN w
    ELSE
    LET entries == IF snapshot = Undef THEN <<>> ELSE ObjectEntries(snapshot)
        w0 == NewNode(w, "map", "map<string>",
                      IF snapshot = Undef THEN Obj(<<>>) ELSE snapshot, NoNode, "")
        node == w.nextId + 1
        Step[i \in 0..Len(entries)] ==
            IF i = 0 THEN w0
            ELSE LET w1 == SimpleCreate(Step[i - 1], entries[i].val)
                     w2 == NewNode(w1, "simple", "string", entries[i].val, node, entries[i].key)
                 IN AddChild(w2, node, entries[i].key, w2.nextId)
        w3 == Step[Len(entries)]
    IN IF w3.err # "" THEN w3
       ELSE MapSyncToNode([w3 EXCEPT !.maps[node] = entries], node)

RECURSIVE ModelCreate(_, _, _)
\* ModelType.create; the new model node's id is w.nextId + 1
ModelCreate(w, tname, snapshot) ==
    IF w.err # "" THEN w
    ELSE
    LET processedSnapshot == IF snapshot = Undef THEN Obj(<<>>) ELSE snapshot
        w0 == NewNode(w, "model", tname, processedSnapshot, NoNode, "")
        node == w.nextId + 1
        props == Properties(tname)
        Step[i \in 0..Len(props)] ==
            IF i = 0 THEN w0
            ELSE LET acc == Step[i - 1]
                     key == props[i].key
                     kind == TypeKind(props[i].type)
                     initialValue == GetProp(processedSnapshot, key)
                     childNode == acc.nextId + 1
                 IN IF acc.err # "" THEN acc
                    ELSE IF kind = "model"
                    THEN AddChild(ModelCreate(acc, props[i].type, initialValue),
                                  node, key, childNode)
                    ELSE IF kind = "array"
                    THEN AddChild(ArrayCreate(acc, initialValue), node, key, childNode)
                    ELSE IF kind = "map"
                    THEN AddChild(MapCreate(acc, initialValue), node, key, childNode)
                    ELSE AddChild(NewNode(SimpleCreate(acc, initialValue), kind,
                                          props[i].type, initialValue, node, key),
                                  node, key, childNode)
        w1 == Step[Len(props)]
        idAttr == IdentifierAttribute(tname)
    IN IF w1.err = "" /\ idAttr # "" /\ GetProp(processedSnapshot, idAttr) # Undef
       THEN RegisterIdentifier(w1, node, tname, GetProp(processedSnapshot, idAttr).s)
       ELSE w1

\* type.create(snapshot) for the type of an existing node
TypeCreate(w, kind, tname, snapshot) ==
    IF kind = "model" THEN ModelCreate(w, tname, snapshot)
    ELSE IF kind = "array" THEN ArrayCreate(w, snapshot)
    ELSE IF kind = "map" THEN MapCreate(w, snapshot)
    ELSE SimpleCreate(w, snapshot)

\* clone(target); the clone's id is w.nextId + 1
Clone(w, n) ==
    TypeCreate(w, w.nodes[n].kind, w.nodes[n].tname, GetSnapshotFromNode(w.nodes, n))

\* the set trap of the proxy ModelType.createInstanceProxy builds
ModelSet(w, n, prop, value) ==
    IF w.err # "" \/ ~HasProperty(w.nodes[n].tname, prop) THEN w
    ELSE
    LET kind == TypeKind(PropertyType(w.nodes[n].tname, prop))
        existingChildNode == GetChild(w.nodes[n], prop)
    IN
    IF kind = "model"
    THEN IF existingChildNode # NoNode
         THEN ApplySnapshotToNode(w, existingChildNode, value) ELSE w
    ELSE IF kind \in {"array", "map"}
    THEN IF existingChildNode # NoNode THEN SetValue(w, existingChildNode, value) ELSE w
    ELSE
    LET oldValue == IF existingChildNode # NoNode
                    THEN w.nodes[existingChildNode].value ELSE Undef
        w1 == IF existingChildNode # NoNode
              THEN LET d == Destroy(w, existingChildNode) IN
                   IF d.err # "" THEN d
                   ELSE [d EXCEPT !.nodes[n].children = MapDelete(@, prop)]
              ELSE w
        w2 == SimpleCreate(w1, value)
        w3 == NewNode(w2, kind, PropertyType(w.nodes[n].tname, prop), value, n, prop)
        w4 == AddChild(w3, n, prop, w3.nextId)
    IN IF w4.err # "" THEN w4
       ELSE NotifyPropertyChange(w4, n, prop, value, oldValue)

----------------------------------------------------------------------------
(* MSTArray and MSTMap mutators *)

\* Array.prototype.indexOf (0 for -1, else the 1-based position)
IndexOf(seq, x) ==
    IF \E i \in 1..Len(seq) : seq[i] = x
    THEN CHOOSE i \in 1..Len(seq) : seq[i] = x /\ \A j \in 1..(i - 1) : seq[j] # x
    ELSE 0

RECURSIVE DefaultSort(_)
\* Array.prototype.sort with the default comparison, on strings
DefaultSort(seq) ==
    IF seq = <<>> THEN <<>>
    ELSE LET i == CHOOSE a \in 1..Len(seq) :
                     \A b \in 1..Len(seq) :
                         \/ KeyRank(seq[a].s) < KeyRank(seq[b].s)
                         \/ (KeyRank(seq[a].s) = KeyRank(seq[b].s) /\ a <= b)
         IN <<seq[i]>> \o DefaultSort(SubSeq(seq, 1, i - 1) \o SubSeq(seq, i + 1, Len(seq)))

\* the contents of the instance change, then syncToNode runs
ArrayWrite(w, a, items) ==
    IF w.err # "" THEN w ELSE ArraySyncToNode([w EXCEPT !.arrays[a] = items], a)

ArrayPush(w, a, items) == ArrayWrite(w, a, w.arrays[a] \o items)
ArrayPop(w, a) ==
    ArrayWrite(w, a, SubSeq(w.arrays[a], 1, Len(w.arrays[a]) - 1))
ArrayShift(w, a) == ArrayWrite(w, a, SubSeq(w.arrays[a], 2, Len(w.arrays[a])))
ArrayUnshift(w, a, items) == ArrayWrite(w, a, items \o w.arrays[a])
ArraySplice(w, a, start, deleteCount, items) ==
    ArrayWrite(w, a, Splice(w.arrays[a], start, deleteCount, items))
ArraySort(w, a) == ArrayWrite(w, a, DefaultSort(w.arrays[a]))
ArrayReverse(w, a) == ArrayWrite(w, a, Reverse(w.arrays[a]))
\* clear(): this.length = 0, then syncToNode
ArrayClear(w, a) == ArrayWrite(w, a, <<>>)
\* replace(items): this.length = 0, push (which syncs), then syncToNode
ArrayReplace(w, a, items) ==
    LET w1 == ArrayPush([w EXCEPT !.arrays[a] = <<>>], a, items) IN
    IF w1.err # "" THEN w1 ELSE ArraySyncToNode(w1, a)
\* remove(item): splice (which syncs), then syncToNode
ArrayRemove(w, a, item) ==
    LET index == IndexOf(w.arrays[a], item) IN
    IF index = 0 THEN w
    ELSE LET w1 == ArraySplice(w, a, index - 1, 1, <<>>) IN
         IF w1.err # "" THEN w1 ELSE ArraySyncToNode(w1, a)

\* Map.prototype.set on the entries of the instance
EntriesSet(entries, k, v) ==
    IF \E i \in 1..Len(entries) : entries[i].key = k
    THEN [i \in 1..Len(entries) |->
            IF entries[i].key = k THEN [key |-> k, val |-> v] ELSE entries[i]]
    ELSE Append(entries, [key |-> k, val |-> v])

\* MSTMap.set
MapSetEntry(w, m, k, v) ==
    IF w.err # "" THEN w
    ELSE MapSyncToNode([w EXCEPT !.maps[m] = EntriesSet(@, k, v)], m)

\* MSTMap.delete
MapDeleteEntry(w, m, k) ==
    IF w.err # "" THEN w
    ELSE IF \E i \in 1..Len(w.maps[m]) : w.maps[m][i].key = k
    THEN MapSyncToNode([w EXCEPT !.maps[m] = SelectSeq(@, LAMBDA e : e.key # k)], m)
    ELSE w

\* MSTMap.clear
MapClear(w, m) ==
    IF w.err # "" THEN w ELSE MapSyncToNode([w EXCEPT !.maps[m] = <<>>], m)

----------------------------------------------------------------------------
(* UndoManager *)

CanUndo(u) == u.currentIndex >= 0
CanRedo(u) == u.currentIndex < Len(u.historyEntries) - 1
UndoLevels(u) == u.currentIndex + 1
RedoLevels(u) == Len(u.historyEntries) - u.currentIndex - 1

\* new UndoManager(target, options): the fields after construction; the
\* constructor also subscribes the listener "UM" to the target's patches
NewUndoManager(target, maxHistoryLength, groupByTime, groupingWindow) ==
    [target |-> target, maxHistoryLength |-> maxHistoryLength,
     groupByTime |-> groupByTime, groupingWindow |-> groupingWindow,
     historyEntries |-> <<>>, currentIndex |-> -1,
     isUndoing |-> FALSE, isRedoing |-> FALSE, skipRecording |-> FALSE,
     grouping |-> FALSE, currentGroup |-> <<>>, currentGroupInverse |-> <<>>,
     lastChangeTime |-> 0]

\* one applyPatch call of the loops in undo() and redo(); an exception
\* leaves the loop
RECURSIVE ApplyEach(_, _, _)
ApplyEach(w, target, patches) ==
    IF patches = <<>> \/ w.err # "" THEN w
    ELSE ApplyEach(ApplyPatch(w, target, <<Head(patches)>>), target, Tail(patches))

\* an undo that applies the entry without entering the replaying state
UndoManagerUndoRecording(w) ==
    IF ~CanUndo(w.um) THEN w
    ELSE LET entry == w.um.historyEntries[w.um.currentIndex + 1]
             w1 == ApplyEach(w, w.um.target, Reverse(entry.patches))
         IN IF w1.err # "" THEN w1
            ELSE [w1 EXCEPT !.um.currentIndex = @ - 1]

\* UndoManager.undo
UndoManagerUndo(w) ==
    IF ~CanUndo(w.um) THEN w
    ELSE LET entry == w.um.historyEntries[w.um.currentIndex + 1]
             w1 == ApplyEach([w EXCEPT !.um.isUndoing = TRUE], w.um.target,
                             Reverse(entry.patches))
         IN IF w1.err # "" THEN [w1 EXCEPT !.um.isUndoing = FALSE]
            ELSE [w1 EXCEPT !.um.currentIndex = @ - 1, !.um.isUndoing = FALSE]

\* UndoManager.redo
UndoManagerRedo(w) ==
    IF ~CanRedo(w.um) THEN w
    ELSE LET index == w.um.currentIndex + 1
             entry == w.um.historyEntries[index + 1]
             w1 == ApplyEach([w EXCEPT !.um.isRedoing = TRUE, !.um.currentIndex = index],
                             w.um.target, entry.inversePatches)
         IN [w1 EXCEPT !.um.isRedoing = FALSE]

\* UndoManager.startGroup
UndoManagerStartGroup(w) ==
    [w EXCEPT !.um.grouping = TRUE, !.um.currentGroup = <<>>,
              !.um.currentGroupInverse = <<>>]

\* an endGroup that pushes the group behind the redo entries and cuts the
\* history after the entry that follows the index: with redo entries, the
\* first of them is kept in the place of the group
UndoManagerEndGroupKeeping(w) ==
    LET u == w.um IN
    IF ~u.grouping THEN w
    ELSE IF Len(u.currentGroup) > 0
    THEN LET pushed == SubSeq(Append(u.historyEntries,
                                     [patches |-> u.currentGroup,
                                      inversePatches |-> u.currentGroupInverse,
                                      timestamp |-> w.clock]),
                              1, u.currentIndex + 2)
             index == u.currentIndex + 1
             excess == IF Len(pushed) > u.maxHistoryLength
                       THEN Len(pushed) - u.maxHistoryLength ELSE 0
         IN [w EXCEPT !.um.grouping = FALSE,
                      !.um.historyEntries = SubSeq(pushed, excess + 1, Len(pushed)),
                      !.um.currentIndex = index - excess,
                      !.um.currentGroup = <<>>,
                      !.um.currentGroupInverse = <<>>]
    ELSE [w EXCEPT !.um.grouping = FALSE, !.um.currentGroup = <<>>,
                   !.um.currentGroupInverse = <<>>]

\* UndoManager.endGroup
UndoManagerEndGroup(w) ==
    LET u == w.um IN
    IF ~u.grouping THEN w
    ELSE IF Len(u.currentGroup) > 0
    THEN LET kept == SubSeq(u.historyEntries, 1, u.currentIndex + 1)
             pushed == Append(kept, [patches |-> u.currentGroup,
                                     inversePatches |-> u.currentGroupInverse,
                                     timestamp |-> w.clock])
             index == u.currentIndex + 1
             excess == IF Len(pushed) > u.maxHistoryLength
                       THEN Len(pushed) - u.maxHistoryLength ELSE 0
         IN [w EXCEPT !.um.grouping = FALSE,
                      !.um.historyEntries = SubSeq(pushed, excess + 1, Len(pushed)),
                      !.um.currentIndex = index - excess,
                      !.um.currentGroup = <<>>,
                      !.um.currentGroupInverse = <<>>]
    ELSE [w EXCEPT !.um.grouping = FALSE, !.um.currentGroup = <<>>,
                   !.um.currentGroupInverse = <<>>]

\* a clear that empties the history and leaves the open group alone
UndoManagerClearEntries(w) ==
    [w EXCEPT !.um.historyEntries = <<>>, !.um.currentIndex = -1]

\* UndoManager.clear
UndoManagerClear(w) ==
    [w EXCEPT !.um.historyEntries = <<>>, !.um.currentIndex = -1,
              !.um.currentGroup = <<>>, !.um.currentGroupInverse = <<>>,
              !.um.grouping = FALSE]

(* Action tracking *)

\* currentAction when no action runs
NoAction == [name |-> "", args |-> <<>>, tree |-> NoNode]

\* the module state of action tracking after load: no action, no listener,
\* no recorder; calls, seen and popped keep what the last operation did
NoActions ==
    [currentAction |-> NoAction, actionListeners |-> <<>>,
     actionRecorders |-> [n \in NodeIds |-> <<>>], nextRecorder |-> 0,
     actions |-> <<>>, calls |-> <<>>, seen |-> <<>>, popped |-> <<>>]

\* one statement of an action body: "observe" reads currentAction, "throw"
\* raises, "call" invokes the action `inner` of node `on`, and "tryCall" does
\* the same inside try/catch
ActionStatement(k, on, body) == [k |-> k, on |-> on, body |-> body]

\* actionListeners.forEach((listener) => listener(call))
NotifyActionListeners(w, call) ==
    [w EXCEPT !.act.calls =
        @ \o [i \in 1..Len(w.act.actionListeners) |->
                 [to |-> w.act.actionListeners[i], call |-> call]]]

\* the recorder made by recordActions(node): it keeps the action only while
\* its node is alive
Recorder(w, r, node, call) ==
    LET w1 == [w EXCEPT !.act.calls = Append(@, [to |-> r, call |-> call])]
    IN IF w.nodes[node].alive
       THEN [w1 EXCEPT !.act.actions = Append(@, [by |-> r, call |-> call])]
       ELSE w1

RECURSIVE NotifyRecordersAt(_, _, _, _)
\* recorders.forEach((recorder) => recorder(action)) for one node of the chain
NotifyRecordersAt(w, node, recorders, call) ==
    IF recorders = <<>> THEN w
    ELSE NotifyRecordersAt(Recorder(w, Head(recorders), node, call), node,
                           Tail(recorders), call)

RECURSIVE NotifyActionRecorders(_, _, _, _)
\* notifyActionRecorders: the node's recorders, then its ancestors'
NotifyActionRecorders(w, current, call, fuel) ==
    IF current = NoNode \/ fuel = 0 THEN w
    ELSE NotifyActionRecorders(
             NotifyRecordersAt(w, current, w.act.actionRecorders[current], call),
             w.nodes[current].parent, call, fuel - 1)

\* trackAction without the finally block: the descriptor is put back only
\* when the body returns
RestoreOnReturn(w, previousAction) ==
    IF w.err = "" THEN [w EXCEPT !.act.currentAction = previousAction] ELSE w

\* the finally block of trackAction
RestoreAction(w, previousAction) ==
    [w EXCEPT !.act.currentAction = previousAction]

RECURSIVE RunActionBody(_, _, _, _, _)
RECURSIVE TrackAction(_, _, _, _, _, _)
\* the body of an action of `node`, statement by statement up to a throw
RunActionBody(w, node, name, body, fuel) ==
    IF body = <<>> \/ w.err # "" THEN w
    ELSE LET st == Head(body)
             inner == IF fuel = 0 THEN Throw(w, "StackOverflow")
                      ELSE TrackAction(w, st.on, "inner", <<>>, st.body, fuel - 1)
             w1 == IF st.k = "observe"
                   THEN [w EXCEPT !.act.seen =
                            Append(@, [by |-> name, on |-> node,
                                       saw |-> w.act.currentAction])]
                   ELSE IF st.k = "throw" THEN Throw(w, "Thrown")
                   ELSE IF st.k = "call" THEN inner
                   ELSE [inner EXCEPT !.err = ""]
         IN RunActionBody(w1, node, name, Tail(body), fuel)

\* trackAction(node, name, args, fn): listeners and recorder hooks are
\* called after fn returned; the finally block restores currentAction
TrackAction(w, node, name, args, body, fuel) ==
    LET previousAction == w.act.currentAction
        w1 == [w EXCEPT !.act.currentAction =
                            [name |-> name, args |-> args, tree |-> node]]
        w2 == RunActionBody(w1, node, name, body, fuel)
        call == [name |-> name, path |-> w2.nodes[node].path, args |-> args]
        w3 == IF w2.err # "" THEN w2
              ELSE NotifyActionRecorders(NotifyActionListeners(w2, call), node,
                                         call, MaxNodes)
        w4 == [w3 EXCEPT !.act.popped =
                            Append(@, [node |-> node, call |-> call,
                                       raised |-> w2.err # ""])]
    IN RestoreAction(w4, previousAction)

\* onAction(target, listener)
OnAction(w, listener) ==
    IF \E i \in 1..Len(w.act.actionListeners) : w.act.actionListeners[i] = listener
    THEN w
    ELSE [w EXCEPT !.act.actionListeners = Append(@, listener)]

\* the disposer onAction returned
DisposeOnAction(w, listener) ==
    [w EXCEPT !.act.actionListeners = SelectSeq(@, LAMBDA l : l # listener)]

\* the recorders, in the order recordActions made them
RecorderNames == <<"R1", "R2", "R3", "R4">>

\* recordActions(target): a new recorder in the node's set
RecordActions(w, node) ==
    [w EXCEPT !.act.actionRecorders[node] = Append(@, RecorderNames[w.act.nextRecorder + 1]),
              !.act.nextRecorder = @ + 1]

\* the stop() of the object recordActions returned
StopRecording(w, node, r) ==
    [w EXCEPT !.act.actionRecorders[node] = SelectSeq(@, LAMBDA x : x # r)]

----------------------------------------------------------------------------
(* The model registry and resolveModelAsync *)

\* the names models are registered under, in the order they are first waited for
ModelNameOrder == <<"A", "B">>
ModelNames == {ModelNameOrder[i] : i \in 1..Len(ModelNameOrder)}
NotRegistered == "none"

\* the registry after module load; promises are the promises resolveModelAsync
\* has returned, in order, each with the timer it set
NoModels ==
    [modelRegistry |-> [name \in ModelNames |-> NotRegistered],
     pendingResolutions |-> [name \in ModelNames |-> <<>>],
     promises |-> <<>>]

\* resolve(value) or reject(error) of promise p: a settled promise stays as
\* it is
Settle(w, p, state, value) ==
    IF w.models.promises[p].state = "pending"
    THEN [w EXCEPT !.models.promises[p].state = state,
                   !.models.promises[p].value = value,
                   !.models.promises[p].calls = @ + 1]
    ELSE [w EXCEPT !.models.promises[p].calls = @ + 1]

\* clearTimeout(timeoutId)
ClearTimeout(w, p) ==
    IF w.models.promises[p].timer = "armed"
    THEN [w EXCEPT !.models.promises[p].timer = "cleared"] ELSE w

\* the functions of promise p: the executor's resolve and reject, and the
\* wrappers stored in pendingResolutions
Function(f, p) == [f |-> f, p |-> p]

\* calling one of them
CallFunction(w, fn, value) ==
    IF fn.f = "resolve" THEN Settle(w, fn.p, "fulfilled", value)
    ELSE IF fn.f = "reject" THEN Settle(w, fn.p, "rejected", value)
    ELSE IF fn.f = "wrappedResolve"
    THEN Settle(ClearTimeout(w, fn.p), fn.p, "fulfilled", value)
    ELSE Settle(ClearTimeout(w, fn.p), fn.p, "rejected", value)

RECURSIVE ResolveEach(_, _, _)
\* pending.forEach(({ resolve }) => resolve(type))
ResolveEach(w, pending, type) ==
    IF pending = <<>> THEN w
    ELSE ResolveEach(CallFunction(w, Head(pending).resolve, type), Tail(pending), type)

RECURSIVE RejectEach(_, _, _)
\* pending.forEach(({ reject }) => reject(error))
RejectEach(w, pending, error) ==
    IF pending = <<>> THEN w
    ELSE RejectEach(CallFunction(w, Head(pending).reject, error), Tail(pending), error)

\* registerModel(name, type); no registration listener is subscribed
RegisterModel(w, name, type) ==
    IF w.models.modelRegistry[name] # NotRegistered THEN Throw(w, "AlreadyRegistered")
    ELSE LET w1 == [w EXCEPT !.models.modelRegistry[name] = type]
             w2 == ResolveEach(w1, w1.models.pendingResolutions[name], type)
         IN [w2 EXCEPT !.models.pendingResolutions[name] = <<>>]

\* unregisterModel(name)
UnregisterModel(w, name) == [w EXCEPT !.models.modelRegistry[name] = NotRegistered]

\* resolveModelAsync(name, timeout)
ResolveModelAsync(w, name, timeout) ==
    LET p == Len(w.models.promises) + 1
        entry == w.models.modelRegistry[name]
    IN IF entry # NotRegistered
       THEN [w EXCEPT !.models.promises =
                Append(@, [name |-> name, state |-> "fulfilled", value |-> entry,
                           timer |-> "none", deadline |-> 0, calls |-> 1])]
       ELSE [w EXCEPT !.models.promises =
                         Append(@, [name |-> name, state |-> "pending", value |-> "",
                                    timer |-> "armed", deadline |-> w.clock + timeout,
                                    calls |-> 0]),
                      !.models.pendingResolutions[name] =
                         Append(@, [resolve |-> Function("wrappedResolve", p),
                                    reject |-> Function("wrappedReject", p)])]

\* a timer callback that rejects nothing
TimeoutCallbackSilent(w, p) == [w EXCEPT !.models.promises[p].timer = "fired"]

\* the callback given to setTimeout for promise p: it looks for the entry
\* whose resolve is the executor's resolve, removes it if there is one, and
\* rejects
TimeoutCallback(w, p) ==
    LET name == w.models.promises[p].name
        pending == w.models.pendingResolutions[name]
        found == {i \in 1..Len(pending) : pending[i].resolve = Function("resolve", p)}
        w1 == IF pending # <<>> /\ found # {}
              THEN LET index == CHOOSE i \in found : \A j \in found : i <= j
                   IN [w EXCEPT !.models.pendingResolutions[name] =
                          SubSeq(pending, 1, index - 1)
                              \o SubSeq(pending, index + 1, Len(pending))]
              ELSE w
        w2 == [w1 EXCEPT !.models.promises[p].timer = "fired"]
    IN CallFunction(w2, Function("reject", p), "Timeout")

\* clearModelRegistry()
ClearModelRegistry(w) ==
    LET w1 == [w EXCEPT !.models.modelRegistry = [name \in ModelNames |-> NotRegistered]]
        names == ModelNameOrder
        Step[i \in 0..Len(names)] ==
            IF i = 0 THEN w1
            ELSE RejectEach(Step[i - 1], w1.models.pendingResolutions[names[i]], "Cleared")
    IN [Step[Len(names)] EXCEPT
           !.models.pendingResolutions = [name \in ModelNames |-> <<>>]]

----------------------------------------------------------------------------
(* withoutUndo *)

\* one statement of a function passed to withoutUndo: an assignment to
\* store.count, a throw, or a nested withoutUndo call with its own function
Statement(k, v, body) == [k |-> k, v |-> v, body |-> body]

RECURSIVE RunStatements(_, _, _)
RECURSIVE UndoManagerWithoutUndo(_, _, _)
\* the body of a function: its statements in order, up to the first throw
RunStatements(w, fn, fuel) ==
    IF fn = <<>> \/ w.err # "" THEN w
    ELSE LET st == Head(fn)
             w1 == IF st.k = "assign" THEN ModelSet(w, w.um.target, "count", st.v)
                   ELSE IF st.k = "throw" THEN Throw(w, "Thrown")
                   ELSE IF fuel = 0 THEN Throw(w, "StackOverflow")
                   ELSE UndoManagerWithoutUndo(w, st.body, fuel - 1)
         IN RunStatements(w1, Tail(fn), fuel)

\* UndoManager.withoutUndo: the finally block runs when fn throws, too
UndoManagerWithoutUndo(w, fn, fuel) ==
    LET w1 == RunStatements([w EXCEPT !.um.skipRecording = TRUE], fn, fuel)
    IN [w1 EXCEPT !.um.skipRecording = FALSE]

----------------------------------------------------------------------------
(* TimeTravelManager *)

\* new TimeTravelManager(target, { maxSnapshots, autoRecord }): the
\* constructor records the first snapshot; the caller puts the listener
\* "TT" on the target when autoRecord is set
NewTimeTravelManager(w, target, maxSnapshots, autoRecord) ==
    TimeTravelRecord([w EXCEPT !.tt = [target |-> target, snapshots |-> <<>>,
                                       index |-> -1, maxSnapshots |-> maxSnapshots,
                                       isApplying |-> FALSE,
                                       autoRecord |-> autoRecord]])

CanGoBack(t) == t.index > 0
CanGoForward(t) == t.index < Len(t.snapshots) - 1

\* TimeTravelManager.goTo: the finally block resets isApplying when
\* applySnapshot throws
TimeTravelGoTo(w, index) ==
    IF index < 0 \/ index >= Len(w.tt.snapshots) THEN w
    ELSE LET w1 == [w EXCEPT !.tt.isApplying = TRUE, !.tt.index = index]
             w2 == ApplySnapshotToNode(w1, w.tt.target, w.tt.snapshots[index + 1])
         IN [w2 EXCEPT !.tt.isApplying = FALSE]

\* TimeTravelManager.goBack
TimeTravelGoBack(w) ==
    IF ~CanGoBack(w.tt) THEN w ELSE TimeTravelGoTo(w, w.tt.index - 1)

\* TimeTravelManager.goForward
TimeTravelGoForward(w) ==
    IF ~CanGoForward(w.tt) THEN w ELSE TimeTravelGoTo(w, w.tt.index + 1)

\* TimeTravelManager.clear
TimeTravelClear(w) ==
    TimeTravelRecord([w EXCEPT !.tt.snapshots = <<>>, !.tt.index = -1])

----------------------------------------------------------------------------
(* Reference types.  What create() returned is a record: made is "proxy"   *)
(* for a resolving proxy, "target" for the target itself and "undefined";  *)
(* target is the proxy's cached target or the target returned; node is the *)
(* reference's own StateTreeNode.                                          *)

RefValue(kind, typeName, id, made, target, node) ==
    [kind |-> kind, typeName |-> typeName, id |-> id, made |-> made,
     target |-> target, node |-> node]

\* ReferenceType.create (no custom getter)
ReferenceTypeCreate(w, typeName, id) ==
    LET w1 == NewNode(w, "reference", "reference", Prim(id), NoNode, "") IN
    IF w1.err # "" THEN w1
    ELSE [w1 EXCEPT !.refs = Append(@, RefValue("reference", typeName, id, "proxy",
                                                NoNode, w1.nextId))]

\* SafeReferenceType.create
SafeReferenceTypeCreate(w, typeName, id) ==
    LET targetNode == ResolveIdentifier(w.registry, typeName, id) IN
    [w EXCEPT !.refs = Append(@, RefValue("safeReference", typeName, id,
                                          IF targetNode = NoNode THEN "undefined"
                                          ELSE "target",
                                          targetNode, NoNode))]

\* DynamicReferenceType.create (no options)
DynamicReferenceTypeCreate(w, typeName, id) ==
    [w EXCEPT !.refs = Append(@, RefValue("dynamicReference", typeName, id, "proxy",
                                          NoNode, NoNode))]

\* SafeDynamicReferenceType.create (no options, the model name registered)
SafeDynamicReferenceTypeCreate(w, typeName, id) ==
    LET targetNode == ResolveIdentifier(w.registry, typeName, id) IN
    [w EXCEPT !.refs = Append(@, RefValue("safeDynamicReference", typeName, id,
                                          IF targetNode = NoNode THEN "undefined"
                                          ELSE "target",
                                          targetNode, NoNode))]

\* DynamicReferenceType.resolveReference (the model name registered)
ResolveReference(w, typeName, id) == ResolveIdentifier(w.registry, typeName, id)

\* the get trap of the proxy ReferenceType.create returns, for a property
\* other than $treenode
ReferenceProxyGet(w, r) ==
    LET ref == w.refs[r]
        targetNode == ResolveIdentifier(w.registry, ref.typeName, ref.id)
    IN IF ref.target # NoNode THEN [w EXCEPT !.got = ref.target]
       ELSE IF targetNode = NoNode
       THEN Throw([w EXCEPT !.got = NoNode], "UnresolvedReference")
       ELSE [w EXCEPT !.refs[r].target = targetNode, !.got = targetNode]

\* the get trap of the proxy DynamicReferenceType.create returns
DynamicReferenceProxyGet(w, r) ==
    LET resolved == ResolveReference(w, w.refs[r].typeName, w.refs[r].id) IN
    IF resolved = NoNode THEN Throw([w EXCEPT !.got = NoNode], "UnresolvedReference")
    ELSE [w EXCEPT !.got = resolved]

\* type.create(id) for the four reference types
ReferenceCreate(w, kind, typeName, id) ==
    IF kind = "reference" THEN ReferenceTypeCreate(w, typeName, id)
    ELSE IF kind = "safeReference" THEN SafeReferenceTypeCreate(w, typeName, id)
    ELSE IF kind = "dynamicReference" THEN DynamicReferenceTypeCreate(w, typeName, id)
    ELSE SafeDynamicReferenceTypeCreate(w, typeName, id)

\* reading through what create() returned: a property of a proxy, or the
\* value itself when it is the target or undefined
ReferenceAccess(w, r) ==
    IF w.refs[r].made = "proxy"
    THEN IF w.refs[r].kind = "reference" THEN ReferenceProxyGet(w, r)
         ELSE DynamicReferenceProxyGet(w, r)
    ELSE [w EXCEPT !.got = w.refs[r].target]

----------------------------------------------------------------------------
(* The state machine: worlds, observations and initial states *)

World ==
    [nodes |-> nodes, nextId |-> nextId, registry |-> registry, arrays |-> arrays,
     maps |-> maps, log |-> log, recorder |-> recorder, um |-> um, tt |-> tt,
     refs |-> refs, got |-> got, act |-> act, models |-> models, clock |-> clock,
     err |-> err]

\* the world an operation starts from: nothing thrown, nothing notified yet
Fresh == [World EXCEPT !.log = <<>>, !.err = "", !.act.calls = <<>>,
                       !.act.seen = <<>>, !.act.popped = <<>>]

\* the world an operation ends in becomes the next state; an operation that
\* would need more nodes than the model holds is not taken
Commit(w) ==
    \E done \in {w} :
        /\ done.err # "OutOfNodes"
        /\ nodes' = done.nodes
        /\ nextId' = done.nextId
        /\ registry' = done.registry
        /\ arrays' = done.arrays
        /\ maps' = done.maps
        /\ log' = done.log
        /\ recorder' = done.recorder
        /\ um' = done.um
        /\ tt' = done.tt
        /\ refs' = done.refs
        /\ got' = done.got
        /\ act' = done.act
        /\ models' = done.models
        /\ clock' = done.clock
        /\ err' = done.err

\* what is remembered of one operation: its name, the node and key it was
\* called with, whether it had anything to do, the node table and the
\* snapshot of the node before it ran, and the identifier registry, the undo
\* manager and the time-travel manager before it ran
Observed(op, n, key, arg, effective) ==
    [op |-> op, n |-> n, key |-> key, arg |-> arg, effective |-> effective,
     pre |-> nodes,
     preSnap |-> IF n # NoNode THEN GetSnapshotFromNode(nodes, n) ELSE Undef,
     preUm |-> um,
     preReg |-> registry,
     preTt |-> tt]

EmptyWorld ==
    [nodes |-> [n \in NodeIds |-> NoNodeRec], nextId |-> 0, registry |-> <<>>,
     arrays |-> [n \in NodeIds |-> <<>>], maps |-> [n \in NodeIds |-> <<>>],
     log |-> <<>>, recorder |-> [recording |-> FALSE, patches |-> <<>>,
                                 inversePatches |-> <<>>],
     um |-> NewUndoManager(NoNode, 0, FALSE, 0),
     tt |-> [target |-> NoNode, snapshots |-> <<>>, index |-> -1, maxSnapshots |-> 0,
             isApplying |-> FALSE, autoRecord |-> FALSE],
     refs |-> <<>>, got |-> NoNode, act |-> NoActions,
     models |-> NoModels, clock |-> 0, err |-> ""]

\* the snapshots the runs create their Store from
StoreSnapshots ==
    {Obj([count |-> Prim("0"), items |-> Arr(items), tags |-> Obj(tags),
          sub |-> Obj([id |-> Prim("a"), x |-> Prim("0")])]) :
        items \in {<<Prim("a"), Prim("b")>>},
        tags \in {[k |-> Prim("a")]}}

\* Store.create(snapshot): the root is the first node made
Root == 1
Created(snapshot) == ModelCreate(EmptyWorld, "Store", snapshot)

\* the nodes that have an instance: models, arrays and maps
IsInstance(ns, n) == Allocated(ns, n) /\ ns[n].kind \in {"model", "array", "map"}
ItemsNode == GetChild(nodes[Root], "items")
TagsNode == GetChild(nodes[Root], "tags")
SubNode == GetChild(nodes[Root], "sub")

\* onPatch(instance, observer) on every instance of the tree, onSnapshot(root, ...)
\* twice, and `first` subscribed to the root's patches before the observers
Subscribed(w, first) ==
    [w EXCEPT !.nodes = [n \in NodeIds |->
        IF ~IsInstance(w.nodes, n) THEN w.nodes[n]
        ELSE [w.nodes[n] EXCEPT
                 !.plis = IF n = Root THEN first \o <<"OBS">> ELSE <<"OBS">>,
                 !.slis = IF n = Root THEN <<"S1", "S2">> ELSE <<>>]]]

\* base: the snapshot of the root when the recorder started
\* undone: recorder.undo has run
\* groupBase, groupCount: the snapshot of the root when startGroup was called
\*     and the number of patches recorded in the group since
\* trail: for each history entry of the undo manager, the snapshot of the
\*     root just before the entry was recorded
\* recorded: the number of mutations the undo manager has recorded
\* fresh: "group" right after an endGroup that pushed an entry, "undo" right
\*     after an undo that undid an entry, "" otherwise
\* undoSnap, undoLevels, redoLevels: what the last undo started from
\* truncated: a record() of the time-travel manager has discarded snapshots
\*     ahead of the cursor
NoMark ==
    [base |-> Undef, undone |-> FALSE, groupBase |-> Undef, groupCount |-> 0,
     trail |-> <<>>, recorded |-> 0, fresh |-> "", undoSnap |-> Undef,
     undoLevels |-> 0, redoLevels |-> 0, truncated |-> FALSE,
     openBase |-> Undef, openCount |-> 0, openReplayed |-> FALSE]

\* the marks after a mutating operation that left the undo manager as u and
\* notified the listeners as l (the operations of the undo specification
\* deliver at most one patch each)
Remembered(u, l) ==
    LET delivered == Cardinality({i \in 1..Len(l) : l[i].k = "patch" /\ l[i].l = "UM"})
        merged == /\ um.groupByTime
                  /\ Len(um.historyEntries) > 0
                  /\ clock - um.lastChangeTime < um.groupingWindow
                  /\ um.currentIndex = Len(um.historyEntries) - 1
        pushed == Append(SubSeq(mark.trail, 1, um.currentIndex + 1),
                         GetSnapshotFromNode(nodes, Root))
    IN IF delivered = 0 THEN [mark EXCEPT !.fresh = ""]
       ELSE IF um.grouping
       THEN [mark EXCEPT !.fresh = "", !.recorded = @ + 1, !.groupCount = @ + delivered,
                         !.openCount = @ + delivered]
       ELSE IF merged THEN [mark EXCEPT !.fresh = "merged", !.recorded = @ + 1]
       ELSE [mark EXCEPT !.fresh = "", !.recorded = @ + 1,
                         !.trail = SubSeq(pushed, Len(pushed) - Len(u.historyEntries) + 1,
                                          Len(pushed))]

Tracked == mark' = Remembered(um', log')

InitFrom(w, l, m, budget) ==
    \E made \in {w} :
        /\ nodes = made.nodes
        /\ nextId = made.nextId
        /\ registry = made.registry
        /\ arrays = made.arrays
        /\ maps = made.maps
        /\ log = <<>>
        /\ recorder = made.recorder
        /\ um = made.um
        /\ tt = made.tt
        /\ refs = made.refs
        /\ got = made.got
        /\ act = made.act
        /\ models = made.models
        /\ clock = made.clock
        /\ err = ""
        /\ last = l
        /\ mark = m
        /\ steps = budget

NoOp ==
    [op |-> "init", n |-> NoNode, key |-> "", arg |-> Undef, effective |-> FALSE,
     pre |-> EmptyWorld.nodes, preSnap |-> Undef, preUm |-> EmptyWorld.um,
     preReg |-> EmptyWorld.registry, preTt |-> EmptyWorld.tt]

----------------------------------------------------------------------------
(* Operations on the tree, as actions *)

Numbers == {Prim("0"), Prim("1")}
Strings == {Prim("a"), Prim("b")}

\* the model instances of the run and the assignments made to them
ModelNodes == {n \in NodeIds : Allocated(nodes, n) /\ nodes[n].kind = "model"}
AssignedValues(type) ==
    IF type = "number" THEN Numbers
    ELSE IF type = "identifier" THEN {Prim("b")}
    ELSE IF type = "array<string>" THEN {Arr(<<Prim("b")>>)}
    ELSE IF type = "map<string>" THEN {Obj([k |-> Prim("b")])}
    ELSE {Obj([x |-> Prim("1")])}

\* instance[prop] = value
Assign(n, prop, value) ==
    /\ steps > 0
    /\ Commit(ModelSet(Fresh, n, prop, value))
    /\ last' = Observed("assign", n, prop, value, TRUE)
    /\ steps' = steps - 1

DoAssign ==
    \E n \in ModelNodes : \E i \in 1..Len(Properties(nodes[n].tname)) :
        \E value \in AssignedValues(Properties(nodes[n].tname)[i].type) :
            /\ Assign(n, Properties(nodes[n].tname)[i].key, value)
            /\ Tracked

\* the snapshots applied to a Store and to an Item
AppliedSnapshots(tname) ==
    IF tname = "Store"
    THEN {Obj([count |-> Prim("1")]),
          Obj([items |-> Arr(<<Prim("b")>>)]),
          Obj([count |-> Prim("1"), sub |-> Obj([id |-> Prim("a"), x |-> Prim("1")])]),
          Obj([tags |-> Obj([m |-> Prim("b")]), items |-> Arr(<<Prim("a"), Prim("b")>>)])}
    ELSE {Obj([x |-> Prim("1")]), Obj([id |-> Prim("a"), x |-> Prim("1")])}

\* applySnapshot(instance, snapshot)
DoApplySnapshot ==
    \E n \in ModelNodes : \E snapshot \in AppliedSnapshots(nodes[n].tname) :
        /\ steps > 0
        /\ Commit(ApplySnapshotToNode(Fresh, n, snapshot))
        /\ last' = Observed("applySnapshot", n, "", snapshot, TRUE)
        /\ steps' = steps - 1
        /\ Tracked

\* applySnapshot(instance, getSnapshot(instance))
DoRoundTrip ==
    \E n \in {q \in NodeIds : IsInstance(nodes, q)} :
        /\ steps > 0
        /\ Commit(ApplySnapshotToNode(Fresh, n, GetSnapshotFromNode(nodes, n)))
        /\ last' = Observed("roundTrip", n, "", GetSnapshotFromNode(nodes, n), TRUE)
        /\ steps' = steps - 1
        /\ Tracked

\* the patches applied through applyPatch(root, patch)
AppliedPatches ==
    {[op |-> "replace", path |-> <<"/", "count">>, value |-> Prim("1")],
     [op |-> "replace", path |-> <<"/", "sub", "/", "x">>, value |-> Prim("1")],
     [op |-> "replace", path |-> <<"/", "items">>, value |-> Arr(<<Prim("b")>>)],
     [op |-> "replace", path |-> <<"/", "items", "/", "0">>, value |-> Prim("b")],
     [op |-> "add", path |-> <<"/", "items", "/", "0">>, value |-> Prim("b")],
     [op |-> "add", path |-> <<"/", "items", "/", "-">>, value |-> Prim("a")],
     [op |-> "add", path |-> <<"/", "tags", "/", "m">>, value |-> Prim("a")],
     [op |-> "remove", path |-> <<"/", "items", "/", "0">>, value |-> Undef],
     [op |-> "remove", path |-> <<"/", "tags", "/", "k">>, value |-> Undef]}

\* applyPatch(root, patch)
DoApplyPatch ==
    \E patch \in AppliedPatches :
        /\ steps > 0
        /\ Commit(ApplyPatch(Fresh, Root, <<patch>>))
        /\ last' = Observed("applyPatch", Root, patch.op, patch.value, TRUE)
        /\ steps' = steps - 1
        /\ Tracked

\* a call of a mutator of the items list
ListCall(name, w, arg, effective) ==
    /\ steps > 0
    /\ Allocated(nodes, ItemsNode) /\ nodes[ItemsNode].alive
    /\ Commit(w)
    /\ last' = Observed(name, ItemsNode, "", arg, effective)
    /\ steps' = steps - 1

DoPush ==
    \E v \in Strings :
        /\ ListCall("push", ArrayPush(Fresh, ItemsNode, <<v>>), v, TRUE)
        /\ Tracked
DoPop ==
    /\ ListCall("pop", ArrayPop(Fresh, ItemsNode), Undef, TRUE)
    /\ Tracked
DoShift ==
    /\ ListCall("shift", ArrayShift(Fresh, ItemsNode), Undef, TRUE)
    /\ Tracked
DoUnshift ==
    \E v \in Strings :
        /\ ListCall("unshift", ArrayUnshift(Fresh, ItemsNode, <<v>>), v, TRUE)
        /\ Tracked
DoSplice ==
    \E start \in 0..1 : \E v \in {Prim("b")} :
        /\ ListCall("splice", ArraySplice(Fresh, ItemsNode, start, 1, <<v>>), v, TRUE)
        /\ Tracked
DoSort ==
    /\ ListCall("sort", ArraySort(Fresh, ItemsNode), Undef, TRUE)
    /\ Tracked
DoReverse ==
    /\ ListCall("reverse", ArrayReverse(Fresh, ItemsNode), Undef, TRUE)
    /\ Tracked
DoReplace ==
    \E items \in {<<Prim("b")>>, <<Prim("a"), Prim("a")>>} :
        /\ ListCall("replace", ArrayReplace(Fresh, ItemsNode, items), Arr(items), TRUE)
        /\ Tracked
DoClear ==
    /\ ListCall("clear", ArrayClear(Fresh, ItemsNode), Undef, TRUE)
    /\ Tracked
DoRemove ==
    \E v \in Strings :
        /\ ListCall("remove", ArrayRemove(Fresh, ItemsNode, v), v,
                    IndexOf(arrays[ItemsNode], v) # 0)
        /\ Tracked

\* a call of a mutator of the tags dictionary
DictCall(name, w, key, arg, effective) ==
    /\ steps > 0
    /\ Allocated(nodes, TagsNode) /\ nodes[TagsNode].alive
    /\ Commit(w)
    /\ last' = Observed(name, TagsNode, key, arg, effective)
    /\ steps' = steps - 1

DoMapSet ==
    \E k \in {"k", "m"} : \E v \in {Prim("b")} :
        /\ DictCall("set", MapSetEntry(Fresh, TagsNode, k, v), k, v, TRUE)
        /\ Tracked
DoMapDelete ==
    \E k \in {"k", "m"} :
        /\ DictCall("delete", MapDeleteEntry(Fresh, TagsNode, k), k, Undef,
                    \E i \in 1..Len(maps[TagsNode]) : maps[TagsNode][i].key = k)
        /\ Tracked
DoMapClear ==
    /\ DictCall("mapClear", MapClear(Fresh, TagsNode), "", Undef, TRUE)
    /\ Tracked

\* recordPatches(root).undo(root), once the mutations are over
DoRecorderUndo ==
    /\ ~mark.undone
    /\ recorder.inversePatches # <<>>
    /\ Commit(RecorderUndo(Fresh, Root))
    /\ last' = Observed("recorderUndo", Root, "", Undef, TRUE)
    /\ mark' = [mark EXCEPT !.undone = TRUE]
    /\ steps' = 0

----------------------------------------------------------------------------
(* Specification of the snapshot and patch protocol *)

InitPatch ==
    \E snapshot \in StoreSnapshots :
        \E w \in {Subscribed(Created(snapshot), <<"REC">>)} :
            InitFrom([w EXCEPT !.recorder.recording = TRUE], NoOp,
                     [NoMark EXCEPT !.base = GetSnapshotFromNode(w.nodes, Root)],
                     MaxMutations)

NextPatch ==
    \/ DoAssign
    \/ DoApplySnapshot
    \/ DoRoundTrip
    \/ DoApplyPatch
    \/ DoPush
    \/ DoPop
    \/ DoShift
    \/ DoUnshift
    \/ DoSplice
    \/ DoSort
    \/ DoReverse
    \/ DoReplace
    \/ DoClear
    \/ DoRemove
    \/ DoMapSet
    \/ DoMapDelete
    \/ DoMapClear
    \/ DoRecorderUndo

SpecPatch == InitPatch /\ [][NextPatch]_vars

----------------------------------------------------------------------------
(* Claims about the snapshot and patch protocol *)

\* C1: applying the inverse patches a root patch listener received, in
\* reverse order of delivery, makes the snapshot of the root equal to the
\* snapshot taken before the first mutation.
C1_PatchReversibility ==
    last.op = "recorderUndo" => GetSnapshotFromNode(nodes, Root) = mark.base

RECURSIVE Ancestry(_, _, _)
\* n, its parent, and each further ancestor up to the root
Ancestry(ns, n, fuel) ==
    IF ns[n].parent = NoNode \/ fuel = 0 THEN <<n>>
    ELSE <<n>> \o Ancestry(ns, ns[n].parent, fuel - 1)

RECURSIVE ListenersAlong(_, _)
\* the patch listeners of the nodes of a chain, in the order of the chain
ListenersAlong(ns, chain) ==
    IF chain = <<>> THEN <<>>
    ELSE [i \in 1..Len(ns[Head(chain)].plis) |->
             [at |-> Head(chain), l |-> ns[Head(chain)].plis[i]]]
         \o ListenersAlong(ns, Tail(chain))

\* l is one complete notification cycle of a mutation of node n
IsCycle(l, ns, n) ==
    LET expected == ListenersAlong(ns, Ancestry(ns, n, MaxNodes))
        root == GetRoot(ns, n)
        observers == ns[root].slis
    IN /\ Len(l) = Len(expected) + Len(observers)
       /\ \A i \in 1..Len(expected) :
              /\ l[i].k = "patch"
              /\ l[i].at = expected[i].at
              /\ l[i].l = expected[i].l
              /\ l[i].patch = l[1].patch
       /\ \A j \in 1..Len(observers) :
              /\ l[Len(expected) + j].k = "snap"
              /\ l[Len(expected) + j].at = root
              /\ l[Len(expected) + j].l = observers[j]
              /\ l[Len(expected) + j].snap = GetSnapshotFromNode(ns, root)

\* the operations that are one mutation of one scalar, list or dictionary
SingleMutation ==
    \/ last.op \in {"push", "pop", "shift", "unshift", "splice", "sort", "reverse",
                    "replace", "clear", "remove", "set", "delete", "mapClear",
                    "applyPatch"}
    \/ /\ last.op = "assign"
       /\ TypeKind(PropertyType(nodes[last.n].tname, last.key)) # "model"

\* C8: a single mutation invokes the patch listeners of the node, then of
\* each ancestor up to the root, each once with the same patch, and after
\* them each snapshot listener of the root once with the post-mutation
\* snapshot: one mutation produces one complete cycle and no extra patch.
C8_NotificationCycle ==
    (SingleMutation /\ last.effective /\ err = "")
        => \E n \in NodeIds : Allocated(nodes, n) /\ IsCycle(log, nodes, n)

\* C9: applySnapshot(T, getSnapshot(T)) leaves getSnapshot(T) unchanged.
C9_RoundTrip ==
    last.op = "roundTrip" => GetSnapshotFromNode(nodes, last.n) = last.preSnap

\* a round trip on the root of a tree whose list and dictionary were mutated
C9_Witness ==
    /\ last.op = "roundTrip"
    /\ last.n = Root
    /\ err = ""
    /\ log # <<>>
    /\ Len(nodes[ItemsNode].value.c) # Len(nodes[ItemsNode].children)

RECURSIVE Subtree(_, _, _)
\* n and the nodes below it in the child maps
Subtree(ns, n, fuel) ==
    {n} \cup (IF fuel = 0 THEN {}
              ELSE UNION {Subtree(ns, c, fuel - 1) : c \in ChildNodes(ns[n])})

\* path p starts with the tokens of path q
HasPrefix(p, q) == Len(p) >= Len(q) /\ SubSeq(p, 1, Len(q)) = q

\* C10: after applySnapshot(node, v) on a record node, every existing child
\* whose key is present in v has a snapshot equal to v[key], and every child
\* whose key is absent is untouched: unchanged, and no patch emitted for it.
C10_RecordMerge ==
    (last.op = "applySnapshot" /\ err = "")
        => \A i \in 1..Len(last.pre[last.n].children) :
               LET key == last.pre[last.n].children[i].key
                   child == last.pre[last.n].children[i].node
               IN IF HasKey(last.arg, key)
                  THEN GetSnapshotFromNode(nodes, child) = GetProp(last.arg, key)
                  ELSE /\ \A d \in Subtree(last.pre, child, MaxNodes) :
                              nodes[d] = last.pre[d]
                       /\ \A j \in 1..Len(log) :
                              log[j].k = "patch"
                                  => ~HasPrefix(log[j].patch.path, last.pre[child].path)

----------------------------------------------------------------------------
(* Specification of the node lifecycle *)

InstanceNodes == {n \in NodeIds : IsInstance(nodes, n)}

\* destroy(instance)
DoDestroy ==
    \E n \in InstanceNodes :
        /\ steps > 0
        /\ Commit(Destroy(Fresh, n))
        /\ last' = Observed("destroy", n, "", Undef, nodes[n].alive)
        /\ steps' = steps - 1
        /\ Tracked

\* detach(instance)
DoDetach ==
    \E n \in InstanceNodes :
        /\ steps > 0
        /\ Commit(Detach(Fresh, n))
        /\ last' = Observed("detach", n, "", Undef, nodes[n].parent # NoNode)
        /\ steps' = steps - 1
        /\ Tracked

\* clone(instance)
DoClone ==
    \E n \in InstanceNodes :
        /\ steps > 0
        /\ Commit(Clone(Fresh, n))
        /\ last' = Observed("clone", n, "", Undef, TRUE)
        /\ steps' = steps - 1
        /\ Tracked

\* Item.create({ id, x: "0" })
DoCreate ==
    \E id \in Strings :
        /\ steps > 0
        /\ Commit(ModelCreate(Fresh, "Item", Obj([id |-> id, x |-> Prim("0")])))
        /\ last' = Observed("create", NoNode, "", id, TRUE)
        /\ steps' = steps - 1
        /\ Tracked

\* store node.addChild("sub", item node)
DoAddChild ==
    \E p \in ModelNodes : \E child \in ModelNodes :
        /\ steps > 0
        /\ nodes[p].tname = "Store"
        /\ nodes[child].tname = "Item"
        /\ Commit(AddChild(Fresh, p, "sub", child))
        /\ last' = Observed("addChild", child, "sub", Undef, TRUE)
        /\ steps' = steps - 1
        /\ Tracked

\* model node.removeChild(key)
DoRemoveChild ==
    \E p \in ModelNodes : \E key \in ChildKeys(nodes[p]) :
        /\ steps > 0
        /\ Commit(RemoveChild(Fresh, p, key))
        /\ last' = Observed("removeChild", GetChild(nodes[p], key), key, Undef, TRUE)
        /\ steps' = steps - 1
        /\ Tracked

Init ==
    \E snapshot \in StoreSnapshots :
        InitFrom(Created(snapshot), NoOp, NoMark, MaxSteps)

Next ==
    \/ DoDestroy
    \/ DoDetach
    \/ DoClone
    \/ DoCreate
    \/ DoAddChild
    \/ DoRemoveChild
    \/ DoAssign
    \/ DoReverse

Spec == Init /\ [][Next]_vars

----------------------------------------------------------------------------
(* Claims about the node lifecycle *)

\* C5: destroying a node makes it and every node that was its descendant at
\* that moment not alive, and leaves no binding in the identifier registry
\* for any of them, so that the registry holds no binding for a destroyed
\* node.
C5_DestroyCompleteness ==
    last.op = "destroy"
        => /\ \A d \in Subtree(last.pre, last.n, MaxNodes) :
                  /\ ~nodes[d].alive
                  /\ \A key \in DOMAIN registry : registry[key] # d
           /\ \A key \in DOMAIN registry : nodes[registry[key]].alive

\* the live nodes that registered under (typeName, identifier)
Registered(typeName, identifier) ==
    {n \in NodeIds : /\ Allocated(nodes, n)
                     /\ nodes[n].alive
                     /\ nodes[n].hasId
                     /\ nodes[n].idType = typeName
                     /\ nodes[n].idValue = identifier}

\* C6: resolveIdentifier(type, id) returns a node if and only if a live node
\* is registered under (type, id), and the node it returns is such a node.
C6_ReferenceLiveness ==
    \A typeName \in {"Store", "Item"} : \A id \in {"a", "b"} :
        LET found == ResolveIdentifier(registry, typeName, id) IN
        /\ (found # NoNode) <=> (Registered(typeName, id) # {})
        /\ found # NoNode => found \in Registered(typeName, id)

RECURSIVE KeysFromRoot(_, _, _)
\* the /-join of the child keys on the parent chain from the root to n, and
\* whether every node of the chain is in the child map of its parent
KeysFromRoot(ns, n, fuel) ==
    IF ns[n].parent = NoNode THEN [linked |-> TRUE, path |-> <<>>]
    ELSE LET p == ns[n].parent
             at == {i \in 1..Len(ns[p].children) : ns[p].children[i].node = n}
             up == KeysFromRoot(ns, p, fuel - 1)
         IN IF at = {} \/ fuel = 0 THEN [linked |-> FALSE, path |-> <<>>]
            ELSE [linked |-> up.linked,
                  path |-> JoinPath(up.path, ns[p].children[CHOOSE i \in at : TRUE].key)]

\* C7: for every live descendant d of a root, path(d) is the /-join of the
\* child keys from the root to d, after every addChild, detach and destroy.
C7_PathConsistency ==
    \A d \in NodeIds :
        (Allocated(nodes, d) /\ nodes[d].alive /\ KeysFromRoot(nodes, d, MaxNodes).linked)
            => nodes[d].path = KeysFromRoot(nodes, d, MaxNodes).path

\* the nodes whose child map holds n
Holders(ns, n) == {p \in NodeIds : Allocated(ns, p) /\ n \in ChildNodes(ns[p])}

\* C12: every node is in the child map of at most one node, and it is in
\* the child map of p exactly when its parent link is p (so a node without
\* a parent is in no child map).
C12_SingleOwner ==
    \A n \in NodeIds :
        Allocated(nodes, n)
            => /\ Cardinality(Holders(nodes, n)) <= 1
               /\ \A p \in NodeIds :
                      Allocated(nodes, p) => (p \in Holders(nodes, n) <=> nodes[n].parent = p)

\* the same for the nodes that are alive
LiveSingleOwner ==
    \A n \in NodeIds :
        (Allocated(nodes, n) /\ nodes[n].alive)
            => /\ Cardinality(Holders(nodes, n)) <= 1
               /\ \A p \in NodeIds :
                      Allocated(nodes, p) => (p \in Holders(nodes, n) <=> nodes[n].parent = p)

\* C13: no operation puts into a child map a node that was already
\* destroyed when the operation began.
C13_NoDeadAttach ==
    \A p \in NodeIds : \A n \in NodeIds :
        (/\ Allocated(nodes, p)
         /\ n \in ChildNodes(nodes[p])
         /\ n \notin ChildNodes(last.pre[p])
         /\ Allocated(last.pre, n))
            => last.pre[n].alive

\* C14: detach(n) on a live node that has a parent leaves n alive, without
\* a parent, a root with the empty path, with the value, snapshot and
\* identifier binding it had; the former parent's child map no longer holds
\* n; and every other node is alive exactly if it was before.
C14_DetachKeepsNode ==
    (/\ last.op = "detach"
     /\ last.pre[last.n].alive
     /\ last.pre[last.n].parent # NoNode)
        => /\ err = ""
           /\ nodes[last.n].alive
           /\ nodes[last.n].parent = NoNode
           /\ GetRoot(nodes, last.n) = last.n
           /\ nodes[last.n].path = <<>>
           /\ nodes[last.n].value = last.pre[last.n].value
           /\ GetSnapshotFromNode(nodes, last.n) = last.preSnap
           /\ nodes[last.n].hasId = last.pre[last.n].hasId
           /\ nodes[last.n].idValue = last.pre[last.n].idValue
           /\ registry = last.preReg
           /\ last.n \notin ChildNodes(nodes[last.pre[last.n].parent])
           /\ \A d \in NodeIds : nodes[d].alive = last.pre[d].alive

\* a live record with an identifier and children was detached from a live
\* parent that held it
C14_Witness ==
    /\ last.op = "detach"
    /\ last.pre[last.n].alive
    /\ last.pre[last.n].parent # NoNode
    /\ last.pre[last.pre[last.n].parent].alive
    /\ last.n \in ChildNodes(last.pre[last.pre[last.n].parent])
    /\ nodes[last.n].hasId
    /\ nodes[last.n].children # <<>>

\* C15: after destroy(n) on a node that had a parent, the parent's child
\* map no longer holds n and the snapshot of the root n was under has no
\* entry for n's key; in every state, the children of a live node are alive.
C15_DestroyRemoves ==
    /\ (/\ last.op = "destroy"
         /\ last.pre[last.n].alive
         /\ last.pre[last.n].parent # NoNode
         /\ last.n \in ChildNodes(last.pre[last.pre[last.n].parent]))
            => /\ last.n \notin ChildNodes(nodes[last.pre[last.n].parent])
               /\ last.pre[last.pre[last.n].parent].kind = "model"
                      => \A i \in 1..Len(last.pre[last.pre[last.n].parent].children) :
                             LET e == last.pre[last.pre[last.n].parent].children[i] IN
                             e.node = last.n
                                 => ~HasKey(GetSnapshotFromNode(nodes, last.pre[last.n].parent),
                                            e.key)
    /\ \A p \in NodeIds : \A n \in NodeIds :
           (Allocated(nodes, p) /\ nodes[p].alive /\ n \in ChildNodes(nodes[p]))
               => nodes[n].alive

\* the value of the identifier property of model node n ("" when it has none)
IdentifierNow(ns, n) ==
    LET attr == IdentifierAttribute(ns[n].tname)
        child == IF attr = "" THEN NoNode ELSE GetChild(ns[n], attr)
    IN IF child = NoNode \/ ns[child].value.t # "prim" THEN "" ELSE ns[child].value.s

\* C18: the binding (type, id) -> m of a live node m leaves the identifier
\* registry in an operation exactly if that operation destroys m or changes
\* the value of m's identifier property.
C18_BindingFrame ==
    \A key \in DOMAIN last.preReg :
        LET m == last.preReg[key]
            removed == key \notin DOMAIN registry \/ registry[key] # m
            destroyed == ~nodes[m].alive
            changed == IdentifierNow(nodes, m) # key[2]
        IN (last.pre[m].alive /\ IdentifierNow(last.pre, m) = key[2])
               => (removed <=> (destroyed \/ changed))

\* the half of C18 about other nodes: a binding leaves the registry only if
\* its node is destroyed or its identifier value changes
BindingKept ==
    \A key \in DOMAIN last.preReg :
        LET m == last.preReg[key] IN
        (/\ last.pre[m].alive
         /\ IdentifierNow(last.pre, m) = key[2]
         /\ nodes[m].alive
         /\ IdentifierNow(nodes, m) = key[2])
            => (key \in DOMAIN registry /\ registry[key] = m)

\* the other half: the binding of a destroyed node, or of a node whose
\* identifier value changed, is gone
BindingDropped ==
    \A key \in DOMAIN last.preReg :
        LET m == last.preReg[key] IN
        (/\ last.pre[m].alive
         /\ IdentifierNow(last.pre, m) = key[2]
         /\ (~nodes[m].alive \/ IdentifierNow(nodes, m) # key[2]))
            => (key \notin DOMAIN registry \/ registry[key] # m)

----------------------------------------------------------------------------
(* Specification of the undo manager *)

\* options.groupingWindow when none is given
GroupingWindow == 200
\* the values of options.maxHistoryLength the runs are made with
HistoryCaps == {1, 2}

\* store.count = value
DoAssignCount ==
    \E value \in Numbers :
        /\ Assign(Root, "count", value)
        /\ Tracked

\* undoManager.undo()
DoUndo ==
    /\ steps > 0
    /\ Commit(UndoManagerUndo(Fresh))
    /\ last' = Observed("undo", Root, mark.fresh, Undef, CanUndo(um))
    /\ mark' = [mark EXCEPT !.fresh = IF CanUndo(um) /\ err' = "" THEN "undo" ELSE "",
                            !.undoSnap = GetSnapshotFromNode(nodes, Root),
                            !.undoLevels = UndoLevels(um),
                            !.redoLevels = RedoLevels(um),
                            !.openReplayed = @ \/ (um.grouping /\ CanUndo(um))]
    /\ steps' = steps - 1

\* undoManager.redo()
DoRedo ==
    /\ steps > 0
    /\ Commit(UndoManagerRedo(Fresh))
    /\ last' = Observed("redo", Root, mark.fresh, Undef, CanRedo(um))
    /\ mark' = [mark EXCEPT !.fresh = "",
                            !.openReplayed = @ \/ (um.grouping /\ CanRedo(um))]
    /\ steps' = steps - 1

\* undoManager.startGroup()
DoStartGroup ==
    /\ steps > 0
    /\ Commit(UndoManagerStartGroup(Fresh))
    /\ last' = Observed("startGroup", Root, "", Undef, TRUE)
    /\ mark' = [mark EXCEPT !.fresh = "", !.groupCount = 0,
                            !.groupBase = GetSnapshotFromNode(nodes, Root),
                            !.openCount = IF um.grouping THEN @ ELSE 0,
                            !.openReplayed = IF um.grouping THEN @ ELSE FALSE,
                            !.openBase = IF um.grouping THEN @
                                         ELSE GetSnapshotFromNode(nodes, Root)]
    /\ steps' = steps - 1

\* undoManager.endGroup()
DoEndGroup ==
    /\ steps > 0
    /\ Commit(UndoManagerEndGroup(Fresh))
    /\ last' = Observed("endGroup", Root, "", Undef, um.grouping)
    /\ mark' = IF um.grouping /\ Len(um.currentGroup) > 0
               THEN LET pushed == Append(SubSeq(mark.trail, 1, um.currentIndex + 1),
                                         mark.groupBase)
                    IN [mark EXCEPT !.fresh = "group",
                                    !.trail = SubSeq(pushed,
                                                     Len(pushed) - Len(um'.historyEntries) + 1,
                                                     Len(pushed))]
               ELSE [mark EXCEPT !.fresh = ""]
    /\ steps' = steps - 1

\* undoManager.clear()
DoClearHistory ==
    /\ steps > 0
    /\ Commit(UndoManagerClear(Fresh))
    /\ last' = Observed("clearHistory", Root, "", Undef, TRUE)
    /\ mark' = [mark EXCEPT !.fresh = "cleared", !.trail = <<>>, !.recorded = 0,
                            !.groupCount = 0,
                            !.openCount = 0]
    /\ steps' = steps - 1

\* the grouping window elapses
DoTick ==
    /\ um.groupByTime
    /\ clock < MaxTicks * um.groupingWindow
    /\ clock' = clock + um.groupingWindow
    /\ UNCHANGED <<nodes, nextId, registry, arrays, maps, log, recorder, um, tt,
                   refs, got, act, models, err, last, mark, steps>>

InitUndo ==
    \E snapshot \in StoreSnapshots : \E cap \in HistoryCaps : \E groupByTime \in BOOLEAN :
        \E w \in {Subscribed(Created(snapshot), <<"UM">>)} :
            InitFrom([w EXCEPT !.um = NewUndoManager(Root, cap, groupByTime, GroupingWindow)],
                     NoOp, NoMark, MaxUndoSteps)

NextUndo ==
    \/ DoAssignCount
    \/ DoReverse
    \/ DoUndo
    \/ DoRedo
    \/ DoStartGroup
    \/ DoEndGroup
    \/ DoClearHistory
    \/ DoTick

SpecUndo == InitUndo /\ [][NextUndo]_vars

----------------------------------------------------------------------------
(* Claims about the undo manager *)

\* C2: the k >= 1 mutations recorded between startGroup() and the matching
\* endGroup() raise undoLevels by exactly 1 (here: when the history is below
\* its cap), and a single undo() afterwards returns the snapshot of the
\* target to the value it had when startGroup() was called.
C2_UndoGroup ==
    /\ (last.op = "endGroup" /\ mark.fresh = "group"
            /\ Len(last.preUm.historyEntries) < um.maxHistoryLength)
           => UndoLevels(um) = UndoLevels(last.preUm) + 1
    /\ (last.op = "undo" /\ last.key = "group" /\ err = "")
           => GetSnapshotFromNode(nodes, Root) = mark.groupBase

\* C3: undo() immediately followed by redo() leaves the snapshot of the
\* target, undoLevels and redoLevels as they were before the undo().
C3_UndoRedo ==
    (last.op = "redo" /\ last.key = "undo" /\ err = "")
        => /\ GetSnapshotFromNode(nodes, Root) = mark.undoSnap
           /\ UndoLevels(um) = mark.undoLevels
           /\ RedoLevels(um) = mark.redoLevels

\* C4: with more mutations recorded than the cap, undoLevels and the number
\* of history entries never exceed the cap, and undo() until canUndo is false
\* returns the tree to the state just before the oldest retained entry was
\* recorded.
C4_UndoBounded ==
    /\ Len(um.historyEntries) <= um.maxHistoryLength
    /\ UndoLevels(um) <= um.maxHistoryLength
    /\ (last.op = "undo" /\ last.effective /\ err = "" /\ ~CanUndo(um)
            /\ mark.recorded > um.maxHistoryLength /\ mark.trail # <<>>)
           => GetSnapshotFromNode(nodes, Root) = mark.trail[1]

----------------------------------------------------------------------------
(* Specification of writes to destroyed nodes *)

\* the node a patch writes: the child its last segment names when a replace
\* finds one, and the node the walk stops at otherwise (NoNode: bad path)
PatchTarget(ns, patch) ==
    LET parts == PathParts(patch.path)
        node == Navigate(ns, Root, parts, 1)
        child == IF node # NoNode /\ parts # <<>>
                 THEN GetChild(ns[node], parts[Len(parts)]) ELSE NoNode
    IN IF node # NoNode /\ patch.op = "replace" /\ child # NoNode THEN child ELSE node

\* applyPatch(root, patch) for a patch whose path resolves
DoApplyPatchAt ==
    \E patch \in AppliedPatches :
        /\ steps > 0
        /\ PatchTarget(nodes, patch) # NoNode
        /\ Commit(ApplyPatch(Fresh, Root, <<patch>>))
        /\ last' = Observed("applyPatchAt", PatchTarget(nodes, patch), patch.op,
                            patch.value, TRUE)
        /\ steps' = steps - 1
        /\ Tracked

\* getStateTreeNode(x).setValue(value) on the node of a number
DoSetValue ==
    \E n \in {q \in NodeIds : Allocated(nodes, q) /\ nodes[q].tname = "number"} :
        \E value \in Numbers :
            /\ steps > 0
            /\ Commit(SetValue(Fresh, n, value))
            /\ last' = Observed("setValue", n, "", value, TRUE)
            /\ steps' = steps - 1
            /\ Tracked

InitDead ==
    \E snapshot \in StoreSnapshots :
        InitFrom(Subscribed(Created(snapshot), <<>>), NoOp, NoMark, MaxSteps)

NextDead ==
    \/ DoDestroy
    \/ DoAssign
    \/ DoApplySnapshot
    \/ DoApplyPatchAt
    \/ DoSetValue

SpecDead == InitDead /\ [][NextDead]_vars

\* C11: a setValue, applySnapshot, applyPatch or property assignment whose
\* target node was not alive throws, leaves every node's value and child
\* map as they were, and invokes no patch or snapshot listener.
C11_DeadNodeMutation ==
    (/\ last.op \in {"setValue", "applySnapshot", "applyPatchAt", "assign"}
     /\ ~last.pre[last.n].alive)
        => /\ err # ""
           /\ \A d \in NodeIds : /\ nodes[d].value = last.pre[d].value
                                 /\ nodes[d].children = last.pre[d].children
           /\ log = <<>>

\* the same for setValue and applySnapshot alone, which check the flag
DeadNodeChecked ==
    (/\ last.op \in {"setValue", "applySnapshot"}
     /\ ~last.pre[last.n].alive)
        => /\ err # ""
           /\ \A d \in NodeIds : /\ nodes[d].value = last.pre[d].value
                                 /\ nodes[d].children = last.pre[d].children
           /\ log = <<>>

----------------------------------------------------------------------------
(* Specification of the time-travel manager *)

MaxTravelSteps == 4
\* the maxSnapshots options of the runs
SnapshotCaps == {1, 2}

\* timeTravel.record()
DoRecord ==
    /\ steps > 0
    /\ Commit(TimeTravelRecord(Fresh))
    /\ last' = Observed("record", Root, "", Undef, TRUE)
    /\ mark' = [mark EXCEPT !.truncated = @ \/ tt.index < Len(tt.snapshots) - 1]
    /\ steps' = steps - 1

\* timeTravel.goTo(index)
DoGoTo ==
    \E index \in -1..2 :
        /\ steps > 0
        /\ Commit(TimeTravelGoTo(Fresh, index))
        /\ last' = Observed("goTo", Root, "", index,
                            index >= 0 /\ index < Len(tt.snapshots))
        /\ steps' = steps - 1
        /\ Tracked

\* timeTravel.goBack()
DoGoBack ==
    /\ steps > 0
    /\ Commit(TimeTravelGoBack(Fresh))
    /\ last' = Observed("goBack", Root, "", tt.index - 1, CanGoBack(tt))
    /\ steps' = steps - 1
    /\ Tracked

\* timeTravel.goForward()
DoGoForward ==
    /\ steps > 0
    /\ Commit(TimeTravelGoForward(Fresh))
    /\ last' = Observed("goForward", Root, "", tt.index + 1, CanGoForward(tt))
    /\ steps' = steps - 1
    /\ Tracked

\* timeTravel.clear()
DoClearSnapshots ==
    /\ steps > 0
    /\ Commit(TimeTravelClear(Fresh))
    /\ last' = Observed("clearSnapshots", Root, "", Undef, TRUE)
    /\ steps' = steps - 1
    /\ Tracked

\* createTimeTravelManager(store, { maxSnapshots, autoRecord })
InitTravel ==
    \E snapshot \in StoreSnapshots : \E cap \in SnapshotCaps : \E autoRecord \in BOOLEAN :
        \E w \in {Subscribed(Created(snapshot), IF autoRecord THEN <<"TT">> ELSE <<>>)} :
            InitFrom(NewTimeTravelManager(w, Root, cap, autoRecord), NoOp, NoMark,
                     MaxTravelSteps)

NextTravel ==
    \/ DoAssignCount
    \/ DoReverse
    \/ DoRecord
    \/ DoGoTo
    \/ DoGoBack
    \/ DoGoForward
    \/ DoClearSnapshots

SpecTravel == InitTravel /\ [][NextTravel]_vars

\* C19: after a goTo(i) with 0 <= i < snapshotCount, or the goBack or
\* goForward that reaches i, currentIndex is i and the snapshot of the
\* target equals the snapshot stored at index i.
C19_TravelRestores ==
    (last.op \in {"goTo", "goBack", "goForward"} /\ last.effective)
        => /\ tt.index = last.arg
           /\ GetSnapshotFromNode(nodes, Root) = tt.snapshots[last.arg + 1]

\* the same when the list of the stored snapshot is the list the target has
TravelRestoresScalars ==
    (/\ last.op \in {"goTo", "goBack", "goForward"}
     /\ last.effective
     /\ GetProp(last.preTt.snapshots[last.arg + 1], "items") = GetProp(last.preSnap, "items"))
        => /\ tt.index = last.arg
           /\ GetSnapshotFromNode(nodes, Root) = tt.snapshots[last.arg + 1]

\* C21: with autoRecord, goTo, goBack and goForward leave the stored
\* snapshots and their number as they were, although the snapshot they apply
\* delivers patches to the manager's listener, and leave the cursor on the
\* requested index (where it was, when the call is a no-op).
C21_NavigationNotRecorded ==
    (tt.autoRecord /\ last.op \in {"goTo", "goBack", "goForward"})
        => /\ tt.snapshots = last.preTt.snapshots
           /\ tt.index = IF last.effective THEN last.arg ELSE last.preTt.index

\* a navigation to another index whose patches reached the manager's listener
C21_Witness ==
    /\ tt.autoRecord
    /\ last.op \in {"goTo", "goBack", "goForward"}
    /\ last.effective
    /\ last.arg # last.preTt.index
    /\ Len(tt.snapshots) > 1
    /\ \E i \in 1..Len(log) : log[i].k = "patch" /\ log[i].l = "TT"

\* C20: record() drops the snapshots ahead of the cursor, appends the
\* snapshot of the target, drops snapshots from the front while there are
\* more than maxSnapshots, and leaves the cursor on the appended snapshot;
\* in every state 0 <= currentIndex < snapshotCount <= maxSnapshots.
C20_RecordBounded ==
    /\ 0 <= tt.index
    /\ tt.index < Len(tt.snapshots)
    /\ Len(tt.snapshots) <= tt.maxSnapshots
    /\ last.op = "record"
           => LET before == last.preTt
                  full == Append(SubSeq(before.snapshots, 1, before.index + 1),
                                 last.preSnap)
                  drop == IF Len(full) > before.maxSnapshots
                          THEN Len(full) - before.maxSnapshots ELSE 0
              IN /\ tt.snapshots = SubSeq(full, drop + 1, Len(full))
                 /\ tt.index = Len(tt.snapshots) - 1
                 /\ tt.snapshots[tt.index + 1] = GetSnapshotFromNode(nodes, Root)

\* a record() that dropped a snapshot from the front, in a run where an
\* earlier record() had dropped snapshots ahead of the cursor
C20_Witness ==
    /\ last.op = "record"
    /\ mark.truncated
    /\ Len(last.preTt.snapshots) = tt.maxSnapshots
    /\ last.preTt.index = tt.maxSnapshots - 1
    /\ tt.snapshots[1] # last.preTt.snapshots[1]

----------------------------------------------------------------------------
(* Specification of references *)

MaxRefSteps == 4
MaxRefs == 2
ReferenceKinds ==
    {"reference", "safeReference", "dynamicReference", "safeDynamicReference"}
SafeKinds == {"safeReference", "safeDynamicReference"}

\* types.reference(Item).create(id) and the three other reference types
DoCreateRef ==
    \E kind \in ReferenceKinds : \E id \in Strings :
        /\ steps > 0
        /\ Len(refs) < MaxRefs
        /\ Commit(ReferenceCreate(Fresh, kind, "Item", id.s))
        /\ last' = Observed("createRef", NoNode, kind, id, TRUE)
        /\ steps' = steps - 1
        /\ Tracked

\* reading through the r-th reference
DoAccessRef ==
    \E r \in 1..Len(refs) :
        /\ steps > 0
        /\ Commit(ReferenceAccess(Fresh, r))
        /\ last' = Observed("accessRef", NoNode, refs[r].kind, r, TRUE)
        /\ steps' = steps - 1
        /\ Tracked

InitRef ==
    \E snapshot \in StoreSnapshots :
        InitFrom(Created(snapshot), NoOp, NoMark, MaxRefSteps)

NextRef ==
    \/ DoCreateRef
    \/ DoAccessRef
    \/ DoDestroy
    \/ DoCreate

SpecRef == InitRef /\ [][NextRef]_vars

\* what the registry resolves the r-th reference to, now
ResolvesTo(r) == ResolveIdentifier(registry, refs[r].typeName, refs[r].id)

\* C16: an access through a reference yields the node the identifier
\* registry holds for its (type, id) at the moment of the access, whatever an
\* earlier access resolved, and fails when the registry holds none.
C16_LateResolution ==
    (last.op = "accessRef" /\ last.key \in {"reference", "dynamicReference"})
        => IF ResolvesTo(last.arg) = NoNode THEN err # ""
           ELSE err = "" /\ got = ResolvesTo(last.arg)

\* the same for dynamic references alone, which keep no target
DynamicLateResolution ==
    (last.op = "accessRef" /\ last.key = "dynamicReference")
        => IF ResolvesTo(last.arg) = NoNode THEN err # ""
           ELSE err = "" /\ got = ResolvesTo(last.arg)

\* C17: creating a reference succeeds and resolves nothing, whether or not
\* a target is registered; an access through a reference that is not safe
\* and has no target fails; an access through a safe reference yields absent
\* while no target is registered and the registered target once there is one.
C17_LazyCreation ==
    /\ last.op = "createRef"
           => /\ err = ""
              /\ refs[Len(refs)].made = "proxy"
              /\ refs[Len(refs)].target = NoNode
    /\ (/\ last.op = "accessRef"
        /\ last.key \notin SafeKinds
        /\ ResolvesTo(last.arg) = NoNode
        /\ refs[last.arg].target = NoNode)
           => err # ""
    /\ (last.op = "accessRef" /\ last.key \in SafeKinds)
           => err = "" /\ got = ResolvesTo(last.arg)

\* the part of C17 about references that are not safe
UnsafeLazyCreation ==
    /\ (last.op = "createRef" /\ last.key \notin SafeKinds)
           => /\ err = ""
              /\ refs[Len(refs)].made = "proxy"
              /\ refs[Len(refs)].target = NoNode
    /\ (/\ last.op = "accessRef"
        /\ last.key \notin SafeKinds
        /\ ResolvesTo(last.arg) = NoNode
        /\ refs[last.arg].target = NoNode)
           => err # ""

----------------------------------------------------------------------------
(* Further claims about the undo manager *)

\* C22: undo() and redo() leave the history entries as they were, although
\* the patches they apply reach the manager's listener, and move the index
\* by one: down for an undo, up for a redo, and not at all when there is
\* nothing to undo or redo.
C22_ReplayNotRecorded ==
    /\ last.op = "undo"
           => /\ um.historyEntries = last.preUm.historyEntries
              /\ um.currentIndex = last.preUm.currentIndex - (IF last.effective THEN 1 ELSE 0)
    /\ last.op = "redo"
           => /\ um.historyEntries = last.preUm.historyEntries
              /\ um.currentIndex = last.preUm.currentIndex + (IF last.effective THEN 1 ELSE 0)

\* a redo of an undone entry whose patches reached the manager's listener
C22_Witness ==
    /\ last.op = "redo"
    /\ last.effective
    /\ last.key = "undo"
    /\ \E i \in 1..Len(log) : log[i].k = "patch" /\ log[i].l = "UM"
    /\ um.historyEntries # <<>>

----------------------------------------------------------------------------
(* Specification of groups, redo entries and withoutUndo *)

MaxGroupSteps == 5
MaxNesting == 2

\* the functions passed to withoutUndo
Functions ==
    {<<Statement("assign", Prim("1"), <<>>)>>,
     <<Statement("assign", Prim("1"), <<>>), Statement("throw", Undef, <<>>)>>,
     <<Statement("nested", Undef, <<Statement("assign", Prim("1"), <<>>)>>),
       Statement("assign", Prim("0"), <<>>)>>}

\* undoManager.withoutUndo(fn)
DoWithoutUndo ==
    \E fn \in Functions :
        /\ steps > 0
        /\ Commit(UndoManagerWithoutUndo(Fresh, fn, MaxNesting))
        /\ last' = Observed("withoutUndo", Root,
                            IF \E i \in 1..Len(fn) : fn[i].k = "nested"
                            THEN "nested" ELSE "flat",
                            Undef, TRUE)
        /\ mark' = IF um'.historyEntries = um.historyEntries
                    THEN [mark EXCEPT !.fresh = ""]
                    ELSE LET pushed == Append(SubSeq(mark.trail, 1, um.currentIndex + 1),
                                              GetSnapshotFromNode(nodes', Root))
                         IN [mark EXCEPT !.fresh = "",
                                         !.trail = SubSeq(pushed,
                                                          Len(pushed) - Len(um'.historyEntries) + 1,
                                                          Len(pushed))]
        /\ steps' = steps - 1

InitGroup ==
    \E snapshot \in StoreSnapshots : \E cap \in HistoryCaps :
        \E w \in {Subscribed(Created(snapshot), <<"UM">>)} :
            InitFrom([w EXCEPT !.um = NewUndoManager(Root, cap, FALSE, GroupingWindow)],
                     NoOp, NoMark, MaxGroupSteps)

NextGroup ==
    \/ DoAssignCount
    \/ DoUndo
    \/ DoRedo
    \/ DoStartGroup
    \/ DoEndGroup
    \/ DoWithoutUndo

SpecGroup == InitGroup /\ [][NextGroup]_vars

\* the last operation pushed a new history entry: a mutation recorded
\* outside a group, or the endGroup of a group that recorded something
PushedEntry ==
    \/ /\ last.op = "assign"
       /\ ~last.preUm.grouping
       /\ \E i \in 1..Len(log) : log[i].k = "patch" /\ log[i].l = "UM"
    \/ /\ last.op = "endGroup"
       /\ last.preUm.grouping
       /\ last.preUm.currentGroup # <<>>

\* C23: when a new entry is pushed while redo entries exist, the entries
\* beyond the index are dropped first: afterwards canRedo is false,
\* redoLevels is 0, the new entry is the last one, and the entries before it
\* are the entries that were at or below the index (less those trimmed from
\* the front by the cap).
C23_RedoDiscarded ==
    (PushedEntry /\ CanRedo(last.preUm))
        => LET before == last.preUm
               kept == SubSeq(before.historyEntries, 1, before.currentIndex + 1)
               n == Len(um.historyEntries)
           IN /\ ~CanRedo(um)
              /\ RedoLevels(um) = 0
              /\ um.currentIndex = n - 1
              /\ n >= 1
              /\ n <= Len(kept) + 1
              /\ SubSeq(um.historyEntries, 1, n - 1)
                     = SubSeq(kept, Len(kept) - (n - 1) + 1, Len(kept))
              /\ last.op = "endGroup"
                     => /\ um.historyEntries[n].patches = before.currentGroup
                        /\ um.historyEntries[n].inversePatches = before.currentGroupInverse

\* a non-empty group closed while a redo entry existed
C23_Witness ==
    /\ last.op = "endGroup"
    /\ PushedEntry
    /\ CanRedo(last.preUm)
    /\ RedoLevels(last.preUm) = 1
    /\ Len(um.historyEntries) = 1

\* C24: withoutUndo(fn) leaves the history entries, the index and the open
\* group as they were, whatever the manager's state and whether fn returns,
\* throws or calls withoutUndo itself, and recording is on again afterwards.
C24_WithoutUndoFrame ==
    last.op = "withoutUndo"
        => /\ um.historyEntries = last.preUm.historyEntries
           /\ um.currentIndex = last.preUm.currentIndex
           /\ um.currentGroup = last.preUm.currentGroup
           /\ um.currentGroupInverse = last.preUm.currentGroupInverse
           /\ um.grouping = last.preUm.grouping
           /\ ~um.skipRecording

\* the same for functions that do not call withoutUndo themselves
FlatWithoutUndoFrame ==
    (last.op = "withoutUndo" /\ last.key = "flat")
        => /\ um.historyEntries = last.preUm.historyEntries
           /\ um.currentIndex = last.preUm.currentIndex
           /\ um.currentGroup = last.preUm.currentGroup
           /\ um.currentGroupInverse = last.preUm.currentGroupInverse
           /\ um.grouping = last.preUm.grouping
           /\ ~um.skipRecording

----------------------------------------------------------------------------
(* Specification of action tracking *)

MaxActionSteps == 5
MaxRecorders == 2
ActionListeners == {"L1", "L2"}

\* the sub-model the store was created with, attached or detached
SubModel == CHOOSE n \in NodeIds : Allocated(nodes, n) /\ nodes[n].kind = "model" /\ n # Root

\* the bodies of the action `outer`: it returns, it raises, it calls `inner`
\* of the sub-model, which returns or raises, with and without try/catch
ActionBodies ==
    {<<ActionStatement("observe", NoNode, <<>>)>>,
     <<ActionStatement("observe", NoNode, <<>>), ActionStatement("throw", NoNode, <<>>)>>,
     <<ActionStatement("call", SubModel, <<ActionStatement("observe", NoNode, <<>>)>>),
       ActionStatement("observe", NoNode, <<>>)>>,
     <<ActionStatement("tryCall", SubModel,
                       <<ActionStatement("observe", NoNode, <<>>),
                         ActionStatement("throw", NoNode, <<>>)>>),
       ActionStatement("observe", NoNode, <<>>)>>,
     <<ActionStatement("call", SubModel, <<ActionStatement("throw", NoNode, <<>>)>>)>>}

\* instance.outer(1) on the store or on the sub-model
DoCallAction ==
    \E n \in {Root, SubModel} : \E body \in ActionBodies :
        /\ steps > 0
        /\ Commit(TrackAction(Fresh, n, "outer", <<Prim("1")>>, body, MaxNesting))
        /\ last' = Observed("callAction", n, body[1].k, Undef, TRUE)
        /\ mark' = mark
        /\ steps' = steps - 1

\* onAction(store, listener)
DoOnAction ==
    \E listener \in ActionListeners :
        /\ steps > 0
        /\ Commit(OnAction(Fresh, listener))
        /\ last' = Observed("onAction", Root, listener, Undef, TRUE)
        /\ mark' = mark
        /\ steps' = steps - 1

\* the disposer of a listener
DoDisposeOnAction ==
    \E i \in 1..Len(act.actionListeners) :
        /\ steps > 0
        /\ Commit(DisposeOnAction(Fresh, act.actionListeners[i]))
        /\ last' = Observed("disposeOnAction", Root, act.actionListeners[i], Undef, TRUE)
        /\ mark' = mark
        /\ steps' = steps - 1

\* recordActions(instance)
DoRecordActions ==
    \E n \in {Root, SubModel, ItemsNode} :
        /\ steps > 0
        /\ act.nextRecorder < MaxRecorders
        /\ act.nextRecorder < Len(RecorderNames)
        /\ Commit(RecordActions(Fresh, n))
        /\ last' = Observed("recordActions", n, "", Undef, TRUE)
        /\ mark' = mark
        /\ steps' = steps - 1

\* recording.stop()
DoStopRecording ==
    \E n \in NodeIds : \E i \in 1..Len(act.actionRecorders[n]) :
        /\ steps > 0
        /\ Commit(StopRecording(Fresh, n, act.actionRecorders[n][i]))
        /\ last' = Observed("stop", n, "", Undef, TRUE)
        /\ mark' = mark
        /\ steps' = steps - 1

\* detach(store.sub)
DoDetachSub ==
    /\ steps > 0
    /\ nodes[SubModel].parent # NoNode
    /\ Commit(Detach(Fresh, SubModel))
    /\ last' = Observed("detach", SubModel, "", Undef, TRUE)
    /\ mark' = mark
    /\ steps' = steps - 1

InitAction ==
    \E snapshot \in StoreSnapshots :
        InitFrom(Created(snapshot), NoOp, NoMark, MaxActionSteps)

NextAction ==
    \/ DoCallAction
    \/ DoOnAction
    \/ DoDisposeOnAction
    \/ DoRecordActions
    \/ DoStopRecording
    \/ DoDetachSub

SpecAction == InitAction /\ [][NextAction]_vars

\* C25: after an action invocation, returned or thrown, currentAction is what
\* it was before (no action between operations); every read of currentAction
\* inside a body sees the descriptor of the action that body belongs to, also
\* after an inner action has returned or thrown.
C25_ActionRestored ==
    last.op = "callAction"
        => /\ act.currentAction = NoAction
           /\ \A i \in 1..Len(act.seen) :
                  /\ act.seen[i].saw.name = act.seen[i].by
                  /\ act.seen[i].saw.tree = act.seen[i].on

\* the outer body read currentAction after its inner action had thrown
C25_Witness ==
    /\ last.op = "callAction"
    /\ last.key = "tryCall"
    /\ Len(act.seen) = 2
    /\ act.seen[1].by = "inner"
    /\ act.seen[2].by = "outer"
    /\ \E i \in 1..Len(act.popped) : act.popped[i].raised

\* the nodes from n up to its root
RECURSIVE Chain(_, _, _)
Chain(ns, n, fuel) ==
    IF n = NoNode \/ fuel = 0 THEN {} ELSE {n} \cup Chain(ns, ns[n].parent, fuel - 1)

\* how often `to` was called with `call` during the last operation
TimesNotified(to, call) ==
    Cardinality({i \in 1..Len(act.calls) : act.calls[i] = [to |-> to, call |-> call]})

\* the pop `p` notified every listener once and every recorder once if it is
\* registered on the chain of the owning node, and no recorder off the chain
NotifiedOnce(p) ==
    /\ \A i \in 1..Len(act.actionListeners) :
           TimesNotified(act.actionListeners[i], p.call) = 1
    /\ \A n \in NodeIds : \A i \in 1..Len(act.actionRecorders[n]) :
           TimesNotified(act.actionRecorders[n][i], p.call)
               = IF n \in Chain(nodes, p.node, MaxNodes) THEN 1 ELSE 0

\* the listeners and recorders registered now
RegisteredNow ==
    {act.actionListeners[i] : i \in 1..Len(act.actionListeners)}
        \cup UNION {{act.actionRecorders[n][i] : i \in 1..Len(act.actionRecorders[n])} :
                        n \in NodeIds}

\* C26: every pop of an action context, after a return or a throw, notifies
\* each action listener and each recorder on the owning node's ancestor
\* chain exactly once with {name, path, args}, and notifies no recorder off
\* the chain and no stopped recorder.
C26_PopNotifies ==
    last.op = "callAction"
        => /\ \A i \in 1..Len(act.popped) : NotifiedOnce(act.popped[i])
           /\ \A i \in 1..Len(act.calls) : act.calls[i].to \in RegisteredNow

\* the same for the pops that follow a return
ReturnNotifies ==
    last.op = "callAction"
        => /\ \A i \in 1..Len(act.popped) :
                  ~act.popped[i].raised => NotifiedOnce(act.popped[i])
           /\ \A i \in 1..Len(act.calls) : act.calls[i].to \in RegisteredNow

\* a throwing action notifies nobody
RaiseNotifiesNobody ==
    last.op = "callAction"
        => \A i \in 1..Len(act.popped) :
               act.popped[i].raised
                   => \A j \in 1..Len(act.calls) : act.calls[j].call # act.popped[i].call

----------------------------------------------------------------------------
(* Specification of the model registry *)

MaxRegistrySteps == 3
MaxPromises == 2
\* the timers' clock runs from 0 to MaxTime
MaxTime == 2
Timeouts == {1, 2}
ModelTypes == {"T1", "T2"}

\* resolveModelAsync(name, timeout)
DoResolveModelAsync ==
    \E name \in ModelNames : \E timeout \in Timeouts :
        /\ steps > 0
        /\ Len(models.promises) < MaxPromises
        /\ clock + timeout <= MaxTime
        /\ Commit(ResolveModelAsync(Fresh, name, timeout))
        /\ last' = Observed("resolveModelAsync", NoNode, name, Undef, TRUE)
        /\ mark' = mark
        /\ steps' = steps - 1

\* registerModel(name, type)
DoRegisterModel ==
    \E name \in ModelNames : \E type \in ModelTypes :
        /\ steps > 0
        /\ Commit(RegisterModel(Fresh, name, type))
        /\ last' = Observed("registerModel", NoNode, name, Undef,
                            models.modelRegistry[name] = NotRegistered)
        /\ mark' = mark
        /\ steps' = steps - 1

\* unregisterModel(name)
DoUnregisterModel ==
    \E name \in ModelNames :
        /\ steps > 0
        /\ Commit(UnregisterModel(Fresh, name))
        /\ last' = Observed("unregisterModel", NoNode, name, Undef,
                            models.modelRegistry[name] # NotRegistered)
        /\ mark' = mark
        /\ steps' = steps - 1

\* clearModelRegistry()
DoClearModelRegistry ==
    /\ steps > 0
    /\ Commit(ClearModelRegistry(Fresh))
    /\ last' = Observed("clearModelRegistry", NoNode, "", Undef, TRUE)
    /\ mark' = mark
    /\ steps' = steps - 1

\* a millisecond passes
DoElapse ==
    /\ clock < MaxTime
    /\ Commit([Fresh EXCEPT !.clock = @ + 1])
    /\ last' = Observed("elapse", NoNode, "", Undef, TRUE)
    /\ UNCHANGED <<mark, steps>>

\* the event loop runs the callback of a timer that is due
DoTimeout ==
    \E p \in 1..Len(models.promises) :
        /\ models.promises[p].timer = "armed"
        /\ clock >= models.promises[p].deadline
        /\ Commit(TimeoutCallback(Fresh, p))
        /\ last' = Observed("timeout", NoNode, models.promises[p].name, Undef, TRUE)
        /\ UNCHANGED <<mark, steps>>

InitRegistry == InitFrom(EmptyWorld, NoOp, NoMark, MaxRegistrySteps)

NextRegistry ==
    \/ DoResolveModelAsync
    \/ DoRegisterModel
    \/ DoUnregisterModel
    \/ DoClearModelRegistry
    \/ DoElapse
    \/ DoTimeout

\* time passes and the event loop runs the timers that are due
SpecRegistry ==
    /\ InitRegistry
    /\ [][NextRegistry]_vars
    /\ WF_vars(DoElapse)
    /\ WF_vars(DoTimeout)

IsPending(p) == p <= Len(models.promises) /\ models.promises[p].state = "pending"
IsSettled(p) == p <= Len(models.promises) /\ models.promises[p].state # "pending"

\* what a step may do to the promises: a settled promise keeps its state and
\* value; a promise is fulfilled only with the type its name is registered
\* with, at its creation or by the registerModel of that name; it is
\* rejected only by its own timer once the deadline has come, or by
\* clearModelRegistry
SettlesRight ==
    \A p \in 1..Len(models'.promises) :
        LET after == models'.promises[p]
            fresh == p > Len(models.promises)
        IN /\ ~fresh /\ models.promises[p].state # "pending"
                => /\ after.state = models.promises[p].state
                   /\ after.value = models.promises[p].value
           /\ (fresh \/ models.promises[p].state = "pending") /\ after.state = "fulfilled"
                => /\ after.value = models'.modelRegistry[after.name]
                   /\ after.value # NotRegistered
                   /\ fresh \/ (last'.op = "registerModel" /\ last'.key = after.name)
           /\ (fresh \/ models.promises[p].state = "pending") /\ after.state = "rejected"
                => /\ ~fresh
                   /\ \/ after.value = "Timeout" /\ last'.op = "timeout"
                         /\ clock >= after.deadline
                      \/ after.value = "Cleared" /\ last'.op = "clearModelRegistry"
           /\ after.state = "pending"
                => /\ models'.modelRegistry[after.name] = NotRegistered
                   /\ after.timer = "armed"

\* C27: every resolveModelAsync call settles: a pending promise is sooner or
\* later fulfilled or rejected; while it is pending its name is unregistered
\* and its timer is set; it is fulfilled with the registered type, at once
\* when the name is registered and otherwise by the registration, rejected
\* by the timeout or by clearModelRegistry, and once settled it never changes.
C27_AsyncSettles ==
    /\ \A p \in 1..MaxPromises : IsPending(p) ~> IsSettled(p)
    /\ [][SettlesRight]_vars
    /\ [](\A p \in 1..Len(models.promises) :
              models.promises[p].state = "pending"
                  => /\ models.modelRegistry[models.promises[p].name] = NotRegistered
                     /\ models.promises[p].timer = "armed")

\* one promise was rejected by its timer and stayed rejected when its name
\* was registered afterwards, which fulfilled the other promise
C27_Witness ==
    /\ Len(models.promises) = 2
    /\ models.promises[1].state = "rejected"
    /\ models.promises[1].value = "Timeout"
    /\ models.promises[1].calls = 2
    /\ models.promises[2].state = "fulfilled"
    /\ models.promises[2].name = models.promises[1].name

----------------------------------------------------------------------------
(* Specification of appending to a list by patch *)

MaxAppendSteps == 3

\* applyPatch(store, { op: "add", path: "/items/-", value })
DoAppendPatch ==
    \E value \in Strings :
        /\ steps > 0
        /\ Commit(ApplyPatch(Fresh, Root,
                             <<[op |-> "add", path |-> <<"/", "items", "/", "-">>,
                                value |-> value]>>))
        /\ last' = Observed("appendPatch", ItemsNode, "", value, TRUE)
        /\ steps' = steps - 1
        /\ Tracked

InitAppend ==
    \E snapshot \in StoreSnapshots :
        \E w \in {Subscribed(Created(snapshot), <<"REC">>)} :
            InitFrom([w EXCEPT !.recorder.recording = TRUE], NoOp, NoMark, MaxAppendSteps)

NextAppend ==
    \/ DoAppendPatch
    \/ DoPush
    \/ DoPop
    \/ DoAssignCount

SpecAppend == InitAppend /\ [][NextAppend]_vars

\* C28: an add patch at "<list path>/-" with value v makes the list of n
\* elements a list of n + 1 elements, the first n as before and the last one
\* v, and the inverse patch generated for it is a remove patch at index n.
C28_AppendPatch ==
    last.op = "appendPatch"
        => LET before == last.preSnap.c
               inverse == recorder.inversePatches
           IN /\ err = ""
              /\ GetSnapshotFromNode(nodes, ItemsNode) = Arr(Append(before, last.arg))
              /\ inverse # <<>>
              /\ inverse[Len(inverse)].op = "remove"
              /\ inverse[Len(inverse)].path
                     = JoinPath(<<"/", "items">>, IndexKey(Len(before)))

\* what the patch does: the list gets v appended, and the patch and the
\* inverse patch generated are replace patches of the whole list, the
\* inverse carrying the list with v already in it
AppendPatchReplaces ==
    last.op = "appendPatch"
        => LET inverse == recorder.inversePatches[Len(recorder.inversePatches)]
               appended == Arr(Append(last.preSnap.c, last.arg))
           IN /\ err = ""
              /\ GetSnapshotFromNode(nodes, ItemsNode) = appended
              /\ Len(log) > 0
              /\ log[1].patch.op = "replace"
              /\ inverse.op = "replace"
              /\ inverse.path = <<"/", "items">>
              /\ inverse.value = nodes[ItemsNode].value

----------------------------------------------------------------------------
(* Specification of patches with an invalid path *)

MaxInvalidSteps == 3

\* patches whose path has an intermediate segment without a child: an unknown
\* property, a list index past the end, an unknown property of the sub-model
InvalidPatches ==
    {[op |-> "replace", path |-> <<"/", "nope", "/", "x">>, value |-> Prim("1")],
     [op |-> "add", path |-> <<"/", "items", "/", "5", "/", "x">>, value |-> Prim("a")],
     [op |-> "remove", path |-> <<"/", "sub", "/", "nope", "/", "x">>, value |-> Undef]}

\* patches that apply
ValidPatches ==
    {[op |-> "replace", path |-> <<"/", "count">>, value |-> Prim("1")],
     [op |-> "replace", path |-> <<"/", "sub", "/", "x">>, value |-> Prim("1")]}

\* the arrays given to applyPatch
PatchLists ==
    {<<bad>> : bad \in InvalidPatches}
        \cup {<<good, bad>> : good \in ValidPatches, bad \in InvalidPatches}
        \cup {<<bad, good>> : good \in ValidPatches, bad \in InvalidPatches}
        \cup {<<first, bad, second>> :
                 first \in ValidPatches, bad \in InvalidPatches, second \in ValidPatches}
        \cup {<<first, second>> : first \in ValidPatches, second \in ValidPatches}

\* the position of the first patch with an invalid path, 0 when there is none
FirstInvalid(patches) ==
    LET bad == {i \in 1..Len(patches) : patches[i] \in InvalidPatches}
    IN IF bad = {} THEN 0 ELSE CHOOSE i \in bad : \A j \in bad : i <= j

\* applyPatch(store, patches); the operation remembers the patches, the
\* position of the failing one and what applying the patches before it
\* alone does
DoApplyPatches ==
    \E patches \in PatchLists :
        /\ steps > 0
        /\ Commit(ApplyPatch(Fresh, Root, patches))
        /\ last' = Observed("applyPatches", Root, "",
                            [patches |-> patches,
                             failing |-> FirstInvalid(patches),
                             prefix |-> IF FirstInvalid(patches) = 0 THEN Fresh
                                        ELSE ApplyPatch(Fresh, Root,
                                                 SubSeq(patches, 1, FirstInvalid(patches) - 1))],
                            TRUE)
        /\ steps' = steps - 1
        /\ Tracked

InitInvalid ==
    \E snapshot \in StoreSnapshots :
        \E w \in {Subscribed(Created(snapshot), <<"REC">>)} :
            InitFrom([w EXCEPT !.recorder.recording = TRUE], NoOp, NoMark, MaxInvalidSteps)

NextInvalid ==
    \/ DoApplyPatches
    \/ DoAssignCount
    \/ DoPop

SpecInvalid == InitInvalid /\ [][NextInvalid]_vars

\* C29: an applyPatch whose patch has an intermediate path segment without a
\* child throws the invalid-path error; the tree, the instances, the
\* identifier registry, the recorded patches and the listener calls are then
\* exactly what applying the patches before the failing one gives: the
\* failing patch changes and notifies nothing, the earlier patches stay, the
\* later ones are not applied.
C29_InvalidPath ==
    (last.op = "applyPatches" /\ last.arg.failing > 0)
        => /\ err = "InvalidPath"
           /\ last.arg.prefix.err = ""
           /\ nodes = last.arg.prefix.nodes
           /\ arrays = last.arg.prefix.arrays
           /\ maps = last.arg.prefix.maps
           /\ registry = last.arg.prefix.registry
           /\ recorder = last.arg.prefix.recorder
           /\ log = last.arg.prefix.log

\* the second of three patches failed: the first one changed count and was
\* notified, the third one did not change sub.x
C29_Witness ==
    /\ last.op = "applyPatches"
    /\ last.arg.failing = 2
    /\ Len(last.arg.patches) = 3
    /\ last.arg.patches[3].path = <<"/", "sub", "/", "x">>
    /\ err = "InvalidPath"
    /\ log # <<>>
    /\ GetSnapshotFromNode(nodes, Root) # last.preSnap
    /\ GetSnapshotFromNode(nodes, SubNode) = GetSnapshotFromNode(last.pre, SubNode)
    /\ GetSnapshotFromNode(nodes, SubNode).c.x = Prim("0")

----------------------------------------------------------------------------
(* Specification of listeners that subscribe and unsubscribe while notified *)

MaxListenSteps == 4
PatchListeners == {"OBS", "ADD", "DEL", "RE"}

\* onPatch(store, listener)
DoOnPatch ==
    \E lid \in PatchListeners :
        /\ steps > 0
        /\ Commit(OnPatch(Fresh, Root, lid))
        /\ last' = Observed("onPatch", Root, lid, Undef, TRUE)
        /\ mark' = mark
        /\ steps' = steps - 1

\* the disposer of one of the store's patch listeners
DoDisposeOnPatch ==
    \E i \in 1..Len(nodes[Root].plis) :
        /\ steps > 0
        /\ Commit(Compacted(DisposeOnPatch(Fresh, Root, nodes[Root].plis[i]), Root))
        /\ last' = Observed("disposeOnPatch", Root, nodes[Root].plis[i], Undef, TRUE)
        /\ mark' = mark
        /\ steps' = steps - 1

InitListen ==
    \E snapshot \in StoreSnapshots :
        InitFrom(Created(snapshot), NoOp, NoMark, MaxListenSteps)

NextListen ==
    \/ DoOnPatch
    \/ DoDisposeOnPatch
    \/ DoAssignCount

SpecListen == InitListen /\ [][NextListen]_vars

\* the listeners of the store called by the last operation, in order
Invoked ==
    SelectSeq(log, LAMBDA c : c.k = "patch" /\ c.at = Root)

\* the last operation called exactly the listeners the store had before it,
\* each once
InvokedAsRegistered ==
    LET began == last.pre[Root].plis
    IN /\ \A i \in 1..Len(began) :
              Cardinality({j \in 1..Len(Invoked) : Invoked[j].l = began[i]}) = 1
       /\ \A j \in 1..Len(Invoked) : \E i \in 1..Len(began) : began[i] = Invoked[j].l

\* C30: a listener that subscribes or unsubscribes a listener while it is
\* notified does not disturb the dispatch: the dispatch ends, and it calls
\* exactly the listeners registered when it began, each once.
C30_DispatchUndisturbed ==
    last.op = "assign" => (err = "" /\ InvokedAsRegistered)

\* the same when none of the listeners called touches the subscriptions
QuietDispatch ==
    (last.op = "assign" /\ \A j \in 1..Len(Invoked) : Invoked[j].l \in {"OBS", "NEW"})
        => (err = "" /\ InvokedAsRegistered)

\* a listener subscribed by a callback is called by the dispatch in progress
AddedIsInvoked ==
    (last.op = "assign" /\ \E i \in 1..Len(last.pre[Root].plis) :
                               last.pre[Root].plis[i] = "ADD")
        => \E j \in 1..Len(Invoked) : Invoked[j].l = "NEW"

\* a dispatch with a listener that disposes and subscribes itself does not end
ResubscribedDiverges ==
    (last.op = "assign" /\ \E i \in 1..Len(last.pre[Root].plis) :
                               last.pre[Root].plis[i] = "RE")
        => err = "Diverges"

----------------------------------------------------------------------------
(* Specification of snapshot listeners below the root *)

MaxSnapSteps == 3

\* onSnapshot(instance, listener) on every instance of the tree
SnapshotSubscribed(w) ==
    [w EXCEPT !.nodes = [n \in NodeIds |->
        IF ~IsInstance(w.nodes, n) THEN w.nodes[n]
        ELSE [w.nodes[n] EXCEPT !.slis = <<"S1">>]]]

\* store.count = value, item.x = value
DoAssignNumber ==
    \E n \in ModelNodes : \E value \in Numbers :
        /\ nodes[n].alive
        /\ Assign(n, IF nodes[n].tname = "Store" THEN "count" ELSE "x", value)
        /\ Tracked

InitSnap ==
    \E snapshot \in StoreSnapshots :
        InitFrom(SnapshotSubscribed(Created(snapshot)), NoOp, NoMark, MaxSnapSteps)

NextSnap ==
    \/ DoAssignNumber
    \/ DoDetach
    \/ DoAddChild

SpecSnap == InitSnap /\ [][NextSnap]_vars

\* the snapshot listeners called by the last operation
SnapshotCalls == SelectSeq(log, LAMBDA c : c.k = "snap")

\* C31: a snapshot listener is called only on a node without a parent, and
\* a mutation calls each snapshot listener of the root of its tree once,
\* also when that root is a node that was detached.
C31_SnapshotAtRoot ==
    /\ \A i \in 1..Len(SnapshotCalls) :
           /\ last.pre[SnapshotCalls[i].at].parent = NoNode
           /\ nodes[SnapshotCalls[i].at].parent = NoNode
    /\ (last.op = "assign" /\ err = "")
           => LET root == GetRoot(nodes, last.n)
              IN /\ \A i \in 1..Len(SnapshotCalls) : SnapshotCalls[i].at = root
                 /\ Len(SnapshotCalls) = Len(nodes[root].slis)
                 /\ \A i \in 1..Len(SnapshotCalls) :
                        /\ SnapshotCalls[i].l = nodes[root].slis[i]
                        /\ SnapshotCalls[i].snap = GetSnapshotFromNode(nodes, root)

\* the listener of a detached item was called for a mutation of that item,
\* not the listener of the store it came from
C31_Witness ==
    /\ last.op = "assign"
    /\ last.n # Root
    /\ nodes[last.n].parent = NoNode
    /\ nodes[Root].slis # <<>>
    /\ Len(SnapshotCalls) = 1
    /\ SnapshotCalls[1].at = last.n

----------------------------------------------------------------------------
(* Specification of paths of keys that contain "/" or "~" *)

MaxPathSteps == 3
DictionaryKeys == {"m", "a/b", "a~b"}

\* store.tags.set(key, value)
DoMapSetKey ==
    \E k \in DictionaryKeys : \E v \in Strings :
        /\ DictCall("set", MapSetEntry(Fresh, TagsNode, k, v), k, v, TRUE)
        /\ Tracked

\* store.tags.delete(key)
DoMapDeleteKey ==
    \E k \in DictionaryKeys :
        /\ \E i \in 1..Len(maps[TagsNode]) : maps[TagsNode][i].key = k
        /\ DictCall("delete", MapDeleteEntry(Fresh, TagsNode, k), k, Undef, TRUE)
        /\ Tracked

\* resolvePath(store, getPath(child)) for a child held by the tree
DoResolvePath ==
    \E n \in NodeIds :
        /\ steps > 0
        /\ n \in Subtree(nodes, Root, MaxNodes)
        /\ Commit(ResolvePath(Fresh, Root, nodes[n].path))
        /\ last' = Observed("resolvePath", n, "", Undef, TRUE)
        /\ steps' = steps - 1
        /\ Tracked

\* applyPatch(store, { op: "replace", path: getPath(child), value }) for an
\* entry of the dictionary
DoPatchEntry ==
    \E i \in 1..Len(nodes[TagsNode].children) : \E v \in Strings :
        /\ steps > 0
        /\ Commit(ApplyPatch(Fresh, Root,
                             <<[op |-> "replace",
                                path |-> nodes[nodes[TagsNode].children[i].node].path,
                                value |-> v]>>))
        /\ last' = Observed("patchEntry", nodes[TagsNode].children[i].node,
                            nodes[TagsNode].children[i].key, v, TRUE)
        /\ steps' = steps - 1
        /\ Tracked

InitPath ==
    \E snapshot \in StoreSnapshots :
        InitFrom(Subscribed(Created(snapshot), <<>>), NoOp, NoMark, MaxPathSteps)

NextPath ==
    \/ DoMapSetKey
    \/ DoMapDeleteKey
    \/ DoResolvePath
    \/ DoPatchEntry

SpecPath == InitPath /\ [][NextPath]_vars

RECURSIVE KeysTo(_, _, _)
\* the keys under which the ancestors of n and n itself are held, from the root
KeysTo(ns, n, fuel) ==
    IF ns[n].parent = NoNode \/ fuel = 0 THEN <<>>
    ELSE LET kids == ns[ns[n].parent].children
             at == {i \in 1..Len(kids) : kids[i].node = n}
         IN KeysTo(ns, ns[n].parent, fuel - 1)
                \o <<IF at = {} THEN "?" ELSE kids[CHOOSE i \in at : TRUE].key>>

\* the nodes held by the store's tree
TreeNodes == Subtree(nodes, Root, MaxNodes)

\* the path of n splits into the keys that lead to n, and walking it from
\* the root ends at n
PathLeadsTo(n) ==
    /\ SplitJsonPath(nodes[n].path) = KeysTo(nodes, n, MaxNodes)
    /\ ResolveParts(nodes, Root, PathParts(nodes[n].path), 1) = n

\* C32: for every child, whatever its key, the path split on "/" and
\* unescaped is the key sequence from the root to the child; resolvePath with
\* that path returns the child, and a replace patch at that path sets the
\* child's value.
C32_PathRoundTrip ==
    /\ \A n \in TreeNodes : PathLeadsTo(n)
    /\ last.op = "resolvePath" => (err = "" /\ got = last.n)
    /\ last.op = "patchEntry"
           => /\ err = ""
              /\ GetSnapshotFromNode(nodes, TagsNode).c[last.key] = last.arg

\* the same for the children held under keys without "/"
PlainPathRoundTrip ==
    /\ \A n \in TreeNodes :
           (\A i \in 1..Len(KeysTo(nodes, n, MaxNodes)) :
                KeysTo(nodes, n, MaxNodes)[i] # "a/b") => PathLeadsTo(n)
    /\ (last.op = "resolvePath" /\ "a/b" \notin DOMAIN GetSnapshotFromNode(last.pre, TagsNode).c)
           => (err = "" /\ got = last.n)

----------------------------------------------------------------------------
(* Specification of the history: every operation of the undo manager, and
   the destruction of its target *)

MaxHistorySteps == 4

\* destroy(store)
DoDestroyTarget ==
    /\ steps > 0
    /\ Commit(Destroy(Fresh, Root))
    /\ last' = Observed("destroy", Root, "", Undef, nodes[Root].alive)
    /\ steps' = steps - 1
    /\ Tracked

InitHistory ==
    \E snapshot \in StoreSnapshots : \E cap \in HistoryCaps :
        \E w \in {Subscribed(Created(snapshot), <<"UM">>)} :
            InitFrom([w EXCEPT !.um = NewUndoManager(Root, cap, FALSE, GroupingWindow)],
                     NoOp, NoMark, MaxHistorySteps)

NextHistory ==
    \/ DoAssignCount
    \/ DoUndo
    \/ DoRedo
    \/ DoStartGroup
    \/ DoEndGroup
    \/ DoWithoutUndo
    \/ DoClearHistory
    \/ DoDestroyTarget

SpecHistory == InitHistory /\ [][NextHistory]_vars

\* C33: after any sequence of recorded mutations, undo, redo, startGroup,
\* endGroup, withoutUndo and clear on a manager whose cap is at least 1, the
\* index is between -1 and the history length minus one, undoLevels plus
\* redoLevels is the history length, canUndo holds exactly when undoLevels is
\* positive and canRedo exactly when redoLevels is positive.
C33_HistoryInvariant ==
    um.maxHistoryLength >= 1
        => /\ -1 <= um.currentIndex
           /\ um.currentIndex <= Len(um.historyEntries) - 1
           /\ UndoLevels(um) + RedoLevels(um) = Len(um.historyEntries)
           /\ UndoLevels(um) >= 0
           /\ RedoLevels(um) >= 0
           /\ CanUndo(um) <=> UndoLevels(um) > 0
           /\ CanRedo(um) <=> RedoLevels(um) > 0

\* an undo at the start of a history that was trimmed at its cap: more
\* mutations were recorded than the history holds, and the entry that is
\* left can be redone
C33_Witness ==
    /\ last.op = "undo"
    /\ last.effective
    /\ mark.recorded > Len(um.historyEntries)
    /\ um.currentIndex = -1
    /\ CanRedo(um)
    /\ ~CanUndo(um)

\* C34: when applying the patches of an entry raises during undo() or
\* redo(), the index and the history are what they were before the call and
\* the manager records again.
C34_ReplayRaises ==
    (last.op \in {"undo", "redo"} /\ err # "")
        => /\ um.currentIndex = last.preUm.currentIndex
           /\ um.historyEntries = last.preUm.historyEntries
           /\ ~um.isUndoing
           /\ ~um.isRedoing

\* the same for undo() alone
UndoRaiseKeepsIndex ==
    (last.op = "undo" /\ err # "")
        => /\ um.currentIndex = last.preUm.currentIndex
           /\ um.historyEntries = last.preUm.historyEntries
           /\ ~um.isUndoing
           /\ ~um.isRedoing

\* a redo() that raised leaves the history alone, records again and has
\* moved the index to the entry it did not apply
RedoRaiseMovesIndex ==
    (last.op = "redo" /\ err # "")
        => /\ um.currentIndex = last.preUm.currentIndex + 1
           /\ um.historyEntries = last.preUm.historyEntries
           /\ ~um.isUndoing
           /\ ~um.isRedoing

----------------------------------------------------------------------------
(* Specification of groups that are opened again before they are closed *)

MaxNestedSteps == 6

InitNested ==
    \E snapshot \in StoreSnapshots :
        \E w \in {Subscribed(Created(snapshot), <<"UM">>)} :
            InitFrom([w EXCEPT !.um = NewUndoManager(Root, 2, FALSE, GroupingWindow)],
                     NoOp, NoMark, MaxNestedSteps)

NextNested ==
    \/ DoAssignCount
    \/ DoStartGroup
    \/ DoEndGroup
    \/ DoUndo
    \/ DoRedo

SpecNested == InitNested /\ [][NextNested]_vars

\* C35: the entry endGroup pushes holds every mutation recorded since the
\* group was opened, a startGroup() in the open group included, and one
\* undo() after that endGroup gives the tree the snapshot it had when the
\* group was opened (when no undo() or redo() moved the tree inside the
\* group).
C35_GroupHoldsAll ==
    /\ (last.op = "endGroup" /\ last.effective /\ mark.openCount > 0)
           => /\ mark.fresh = "group"
              /\ Len(um.historyEntries[um.currentIndex + 1].patches) = mark.openCount
    /\ (last.op = "undo" /\ last.effective /\ last.key = "group" /\ ~mark.openReplayed)
           => GetSnapshotFromNode(nodes, Root) = mark.openBase

\* the same for the groups in which startGroup() was not called again
PlainGroupHoldsAll ==
    mark.openCount = mark.groupCount
        => /\ (last.op = "endGroup" /\ last.effective /\ mark.openCount > 0)
                  => /\ mark.fresh = "group"
                     /\ Len(um.historyEntries[um.currentIndex + 1].patches) = mark.openCount
           /\ (last.op = "undo" /\ last.effective /\ last.key = "group"
                   /\ ~mark.openReplayed)
                  => GetSnapshotFromNode(nodes, Root) = mark.openBase

----------------------------------------------------------------------------
(* Claims about grouping by time *)

\* the last operation was a mutation the manager recorded outside a group
\* while the index was at the last entry of a history that is not empty
RecordedAtTail ==
    /\ last.op \in {"assign", "reverse"}
    /\ \E i \in 1..Len(log) : log[i].k = "patch" /\ log[i].l = "UM"
    /\ last.preUm.groupByTime
    /\ ~last.preUm.grouping
    /\ last.preUm.historyEntries # <<>>
    /\ last.preUm.currentIndex = Len(last.preUm.historyEntries) - 1

PreviousEntry == last.preUm.historyEntries[Len(last.preUm.historyEntries)]

\* the time of the last mutation recorded outside a group
RecordedAt == um.lastChangeTime

\* the mutation went into the entry that was the last one
MergedIntoPrevious ==
    /\ Len(um.historyEntries) = Len(last.preUm.historyEntries)
    /\ um.currentIndex = last.preUm.currentIndex
    /\ Len(um.historyEntries[Len(um.historyEntries)].patches)
           > Len(PreviousEntry.patches)

\* the mutation is an entry of its own behind the one that was the last
StartedEntry ==
    /\ Len(um.historyEntries[Len(um.historyEntries)].patches)
           < Len(last.preUm.historyEntries[Len(last.preUm.historyEntries)].patches) + 1
           \/ Len(um.historyEntries) = Len(last.preUm.historyEntries) + 1
           \/ Len(um.historyEntries) = um.maxHistoryLength
    /\ um.historyEntries[Len(um.historyEntries)].timestamp = RecordedAt
    /\ um.historyEntries[Len(um.historyEntries)].patches
           # PreviousEntry.patches \o
             <<um.historyEntries[Len(um.historyEntries)].patches[
                   Len(um.historyEntries[Len(um.historyEntries)].patches)]>>

\* an undo() that follows a merged mutation gives the tree the snapshot it
\* had before the first mutation of the entry
MergedUndone ==
    (last.op = "undo" /\ last.effective /\ last.key = "merged")
        => /\ err = ""
           /\ GetSnapshotFromNode(nodes, Root) = mark.trail[last.preUm.currentIndex + 1]

\* C36: with grouping by time and no group open, a mutation recorded while
\* the previous entry is within the grouping window is merged into that
\* entry, and a mutation recorded after the window starts an entry of its
\* own; one undo() gives the tree the snapshot it had before the first
\* mutation of the entry.
C36_TimeGrouping ==
    /\ (RecordedAtTail /\ RecordedAt - PreviousEntry.timestamp < um.groupingWindow)
           => MergedIntoPrevious
    /\ (RecordedAtTail /\ RecordedAt - PreviousEntry.timestamp >= um.groupingWindow)
           => StartedEntry
    /\ MergedUndone

\* the same with the window counted from the last mutation that was
\* recorded outside a group
WindowSinceLastChange ==
    /\ (RecordedAtTail /\ RecordedAt - last.preUm.lastChangeTime < um.groupingWindow)
           => MergedIntoPrevious
    /\ (RecordedAtTail /\ RecordedAt - last.preUm.lastChangeTime >= um.groupingWindow)
           => StartedEntry

\* the same for the entries that hold mutations of the scalar field only
ScalarMergedUndone ==
    (/\ last.op = "undo" /\ last.effective /\ last.key = "merged"
     /\ \A i \in 1..Len(last.preUm.historyEntries[last.preUm.currentIndex + 1].patches) :
            last.preUm.historyEntries[last.preUm.currentIndex + 1].patches[i].path
                = <<"/", "count">>)
        => /\ err = ""
           /\ GetSnapshotFromNode(nodes, Root) = mark.trail[last.preUm.currentIndex + 1]

\* the window counted from the time of the previous entry
WindowSincePreviousEntry ==
    /\ (RecordedAtTail /\ RecordedAt - PreviousEntry.timestamp < um.groupingWindow)
           => MergedIntoPrevious
    /\ (RecordedAtTail /\ RecordedAt - PreviousEntry.timestamp >= um.groupingWindow)
           => StartedEntry

\* C37: after clear(), whatever the state of the manager, the history is
\* empty, canUndo and canRedo are false, undoLevels and redoLevels are 0 and
\* no group is open; an undo() or redo() that follows changes nothing.
C37_ClearResets ==
    /\ last.op = "clearHistory"
           => /\ um.historyEntries = <<>>
              /\ ~CanUndo(um)
              /\ ~CanRedo(um)
              /\ UndoLevels(um) = 0
              /\ RedoLevels(um) = 0
              /\ ~um.grouping
              /\ um.currentGroup = <<>>
              /\ um.currentGroupInverse = <<>>
              /\ nodes = last.pre
    /\ (last.op \in {"undo", "redo"} /\ last.key = "cleared")
           => /\ err = ""
              /\ nodes = last.pre
              /\ um = last.preUm

\* clear() was called on a manager with entries in its history and an open
\* group that had recorded a mutation
C37_Witness ==
    /\ last.op = "clearHistory"
    /\ last.preUm.historyEntries # <<>>
    /\ last.preUm.grouping
    /\ last.preUm.currentGroup # <<>>

----------------------------------------------------------------------------
(* Claims about the child nodes of a list *)

ListMutators ==
    {"push", "pop", "shift", "unshift", "splice", "replace", "remove", "clear",
     "sort", "reverse"}

\* the child nodes of n in the node table ns that hold the value v
ChildrenWith(ns, n, v) == {c \in ChildNodes(ns[n]) : ns[c].value = v}

\* the positions of the list a at which the element is v
ElementsWith(a, v) == {i \in 1..Len(arrays[a]) : arrays[a][i] = v}

----------------------------------------------------------------------------
(* Specification of addChild between any two nodes of the tree *)

MaxCycleSteps == 3

RECURSIVE Climbs(_, _, _)
\* the walk of getRoot from n comes to a node without a parent in at most
\* fuel steps
Climbs(ns, n, fuel) ==
    IF ns[n].parent = NoNode THEN TRUE
    ELSE IF fuel = 0 THEN FALSE
    ELSE Climbs(ns, ns[n].parent, fuel - 1)

RECURSIVE Descends(_, _, _)
\* the walk over the child maps below n ends in at most fuel levels
Descends(ns, n, fuel) ==
    \A c \in ChildNodes(ns[n]) : fuel > 0 /\ Descends(ns, c, fuel - 1)

\* no node is its own ancestor
Acyclic(ns, made) == \A n \in 1..made : Climbs(ns, n, made)

\* every walk over the parents and over the child maps returns
WalksReturn(ns, made) ==
    /\ Acyclic(ns, made)
    /\ \A n \in 1..made : Descends(ns, n, made)

RECURSIVE AncestorsOrSelf(_, _, _)
AncestorsOrSelf(ns, n, fuel) ==
    {n} \cup (IF ns[n].parent = NoNode \/ fuel = 0 THEN {}
              ELSE AncestorsOrSelf(ns, ns[n].parent, fuel - 1))

\* getStateTreeNode(a).addChild(key, getStateTreeNode(b)), for any two
\* instances of the tree; a call made once a walk no longer returns does not
\* return either
DoAttach ==
    \E p \in InstanceNodes : \E child \in InstanceNodes : \E key \in {"sub", "n"} :
        /\ steps > 0
        /\ WalksReturn(nodes, nextId)
        /\ Commit(AddChild(Fresh, p, key, child))
        /\ last' = Observed("addChild", child, key, Undef, TRUE)
        /\ mark' = mark
        /\ steps' = steps - 1

InitCycle ==
    \E snapshot \in StoreSnapshots :
        InitFrom(Subscribed(Created(snapshot), <<>>), NoOp, NoMark, MaxCycleSteps)

NextCycle == DoAttach

SpecCycle == InitCycle /\ [][NextCycle]_vars

\* C39: after any sequence of addChild calls no node is its own ancestor:
\* from every node the walk of getRoot comes to a node without a parent.
C39_ParentsAcyclic ==
    /\ Acyclic(nodes, nextId)
    /\ \A n \in 1..nextId : nodes[GetRootFrom(nodes, n, nextId)].parent = NoNode

\* the same after the calls that attach a node which is neither the new
\* parent nor one of its ancestors
AttachedBelowAcyclic ==
    (/\ last.op = "addChild"
     /\ last.n \notin AncestorsOrSelf(last.pre, nodes[last.n].parent, nextId))
        => Acyclic(nodes, nextId)

----------------------------------------------------------------------------
(* Claims about the pending resolutions *)

\* the waits of the records held for a name
RecordedWaits(name) ==
    {models.pendingResolutions[name][i].resolve.p :
         i \in 1..Len(models.pendingResolutions[name])}

\* the waits for a name that have not settled
OpenWaits(name) == {p \in 1..Len(models.promises) : /\ models.promises[p].name = name
                                                     /\ models.promises[p].state = "pending"}

\* C40: at every moment the records held for a name are exactly the waits
\* for that name that have not settled, one record for each: the record of a
\* wait that timed out is gone.
C40_PendingRecords ==
    \A name \in ModelNames :
        /\ RecordedWaits(name) = OpenWaits(name)
        /\ Len(models.pendingResolutions[name]) = Cardinality(OpenWaits(name))

\* every wait that has not settled has its record, and a record whose wait
\* has settled is the record of a wait that timed out
RecordsOutliveTimeouts ==
    \A name \in ModelNames :
        /\ OpenWaits(name) \subseteq RecordedWaits(name)
        /\ Len(models.pendingResolutions[name]) = Cardinality(RecordedWaits(name))
        /\ \A p \in RecordedWaits(name) \ OpenWaits(name) :
               /\ models.promises[p].state = "rejected"
               /\ models.promises[p].value = "Timeout"

====
